---- MODULE Spec2Model ----
(***************************************************************************)
(* The TAC ledger (tac/platform/game.py): GameConfiguration,               *)
(* GameInitialization, Game, AgentState, GoodState and WorldState, and the *)
(* negotiation handlers (tac/agents/v2/base/behaviours.py), and the main   *)
(* loop of the template agents (tac/aea/agent.py, tac/agents/v1/agent.py). *)
(*                                                                         *)
(* Specifications                                                          *)
(*  - Spec: the calls on the Game of the controller.                       *)
(*  - SpecFIPA: the handlers of one agent on any message.                  *)
(*  - SpecHandshake: two agents that handle each other's messages.         *)
(*  - SpecSetup: the constructors of configurations, initializations and   *)
(*    games.                                                               *)
(*  - SpecRelease: the handshake with the controller's answers and the     *)
(*    timeouts of the dialogues.                                           *)
(*  - SpecBeliefs: the updates of the belief state of one agent.           *)
(*  - SpecAgent, SpecAgentFair: the main loop of a template agent and a    *)
(*    second thread that stops it.                                         *)
(*                                                                         *)
(* Conventions of the model                                                *)
(*  - Money is counted in cents (1/100 of the currency unit), so that the  *)
(*    half fee "round(tx_fee / 2.0, 2)" is an integer number of cents.     *)
(*    Float rounding noise of balance arithmetic is not modelled.          *)
(*  - A good price is the exact quotient amount / n, kept as a reduced     *)
(*    fraction [num, den].                                                 *)
(*  - Python lists that the code mutates in place (holdings) live in the   *)
(*    variable heap, and the objects hold references to them, so that      *)
(*    sharing between the initialization, the snapshot and the live agent  *)
(*    states is visible.                                                   *)
(*  - tx.quantities_by_good_pbk lists the goods in the order of            *)
(*    configuration.good_pbks (as in the doctests); the code indexes the   *)
(*    holdings by the position in that dict.                               *)
(***************************************************************************)
EXTENDS Integers, Sequences, FiniteSets, TLC

\* ------------------------------------------------------------------ bounds

\* Longest transaction log explored.
MaxTx == 2

\* Most messages the agent handles.
MaxMessages == 3

\* Public keys of the agents and of the goods of the configuration.
agent_pbks == <<"tac_agent_0_pbk", "tac_agent_1_pbk", "tac_agent_2_pbk">>
good_pbks == <<"tac_good_0", "tac_good_1">>

\* Transaction fees (cents) the configuration is drawn from.
TxFees == {1, 100}
\* The lists of initial money amounts (cents, by agent) the initialization is
\* drawn from.
InitialMoneyAmounts == {<<2000, 2000, 2000>>, <<0, 2000, 2000>>}
\* The endowment and utility matrices: rows by agent, columns by good.
Endowments == <<<<1, 1>>, <<2, 1>>, <<1, 2>>>>
UtilityParams == <<<<20, 40>>, <<10, 50>>, <<40, 30>>>>
\* The transactions submitted: their sender and counterparty (the third agent
\* only looks on), their amounts (cents) and their per-good quantities.
Senders == {"tac_agent_0_pbk"}
Counterparties == {"tac_agent_1_pbk"}
Amounts == {0, 1500}
Quantities == {-1, 0, 1}

\* ------------------------------------------------------------------ state

VARIABLES
    configuration,          \* Game._configuration
    initialization,         \* Game._initialization
    heap,                   \* the list objects: reference -> list of ints
    initial_agent_states,   \* Game._initial_agent_states: pbk -> AgentState
    agent_states,           \* Game.agent_states: pbk -> AgentState
    good_states,            \* Game.good_states: pbk -> GoodState
    transactions,           \* Game.transactions
    raised,                 \* how the last call ended: the exception, if any
    returned,               \* what the last call returned
    game_instance,          \* FIPABehaviour.game_instance, of the agent
    lock_manager,           \* game_instance.lock_manager
    handled,                \* the number of messages the agent has handled
    last_message,           \* the last message handled
    last_dialogue,          \* the dialogue of the last message handled
    last_call,              \* the last constructor call and its arguments
    dialogues,              \* the dialogues of the agent: label -> is_seller
    ended,                  \* the dialogues that ended: <<agent, dialogue id>>
    opponent_agent,         \* the agent at the other end of the dialogues
    in_flight,              \* the messages sent and not yet delivered
    controller_inbox,       \* the messages delivered to the controller
    main_loop               \* the template Agent, its main loop and a second thread

vars == <<last_call, configuration, initialization, heap, initial_agent_states,
          agent_states, good_states, transactions, raised, returned,
          game_instance, lock_manager, handled, last_message, last_dialogue,
          dialogues, ended, opponent_agent, in_flight, controller_inbox,
          main_loop>>

\* ------------------------------------------------------------------ helpers

Range(s) == {s[i] : i \in DOMAIN s}

IndexOf(s, x) == CHOOSE i \in DOMAIN s : s[i] = x

RECURSIVE SumSeq(_)
SumSeq(s) == IF s = <<>> THEN 0 ELSE s[1] + SumSeq(Tail(s))

RECURSIVE SumOver(_, _)
SumOver(f, S) ==
    IF S = {} THEN 0
    ELSE LET x == CHOOSE y \in S : TRUE IN f[x] + SumOver(f, S \ {x})

Abs(n) == IF n < 0 THEN -n ELSE n

RECURSIVE Gcd(_, _)
Gcd(a, b) == IF b = 0 THEN a ELSE Gcd(b, a % b)

\* The exact quotient num / den (den # 0) as a reduced fraction.
Quotient(num, den) ==
    LET g == Gcd(Abs(num), Abs(den))
        s == IF den < 0 THEN -1 ELSE 1
    IN [num |-> (s * num) \div g, den |-> (s * den) \div g]

DEFAULT_PRICE == Quotient(0, 1)

\* Odd fees (cents) whose half, as a binary float, lies below the decimal tie
\* and rounds down: round(0.03 / 2.0, 2) = 0.01, whereas the half of 0.01 lies
\* above it and rounds up: round(0.01 / 2.0, 2) = 0.01.
HalfBelowTie == {3}

\* round(tx_fee / 2.0, 2) for a fee of tx_fee cents, in cents. An even number of
\* cents halves exactly; an odd one halves to a tie that Python rounds on the
\* binary float, up or down as the float lies above or below the tie.
share_of_tx_fee(tx_fee) ==
    IF tx_fee % 2 = 0 THEN tx_fee \div 2
    ELSE IF tx_fee \in HalfBelowTie THEN (tx_fee - 1) \div 2
    ELSE (tx_fee + 1) \div 2

\* ------------------------------------------------------------------ Transaction

\* Transaction(transaction_id, is_sender_buyer, counterparty, amount,
\* quantities_by_good_pbk, sender, crypto); the signature is not modelled.
Transaction(transaction_id, is_sender_buyer, counterparty, amount, quantities, sender) ==
    [transaction_id |-> transaction_id,
     is_sender_buyer |-> is_sender_buyer,
     counterparty |-> counterparty,
     amount |-> amount,
     quantities_by_good_pbk |-> quantities,
     sender |-> sender]

buyer_pbk(tx) == IF tx.is_sender_buyer THEN tx.sender ELSE tx.counterparty
seller_pbk(tx) == IF tx.is_sender_buyer THEN tx.counterparty ELSE tx.sender

\* Transaction.to_dict / Transaction.from_dict: the wire form.
Transaction_to_dict(tx) ==
    <<tx.transaction_id, tx.is_sender_buyer, tx.counterparty, tx.amount,
      tx.quantities_by_good_pbk, tx.sender>>

Transaction_from_dict(d) == Transaction(d[1], d[2], d[3], d[4], d[5], d[6])

\* The transactions submitted for settlement: between two distinct agents.
\* The Transaction class is not part of the sources modelled here; as in the
\* data model, the amount is any of Amounts and a quantity is signed (positive
\* means that the buyer receives), so Quantities holds a negative quantity.
TxSet ==
    {tx \in [transaction_id : {"some_tx_id"}, is_sender_buyer : BOOLEAN,
             counterparty : Counterparties, amount : Amounts,
             quantities_by_good_pbk : [DOMAIN good_pbks -> Quantities],
             sender : Senders] : tx.sender # tx.counterparty}

\* ------------------------------------------------------------------ AgentState, GoodState

\* The endowment list stored without a copy.
ShareList(src, fresh) == src

\* copy.copy(endowment): the reference to the new list (its contents equal the
\* contents of the list at src); fresh is the address the new list gets.
CopyList(src, fresh) == fresh

\* AgentState.__init__(money, endowment, utility_params): the object; its
\* holdings are a copy of the endowment list.
AgentState(money, endowment, utility_params, fresh) ==
    [balance |-> money,
     _utility_params |-> utility_params,
     _current_holdings |-> CopyList(endowment, fresh)]

\* AgentState.current_holdings: a copy of the list's contents.
current_holdings(h, state) == h[state._current_holdings]

\* AgentState.__eq__
AgentState_eq(h1, s1, h2, s2) ==
    /\ s1.balance = s2.balance
    /\ s1._utility_params = s2._utility_params
    /\ h1[s1._current_holdings] = h2[s2._current_holdings]

\* GoodState.__init__(price)
GoodState(price) == [price |-> price]

\* ------------------------------------------------------------------ Game

\* The address of a list: <<owner, field, agent pbk>>.
Ref(owner, field, pbk) == <<owner, field, pbk>>

\* The pairing of Game.__init__ with every agent taking the first row.
agent_row_first(conf, pbk) == 1

\* zip(configuration.agent_pbks, range(configuration.nb_agents)): the row of the
\* initialization that the agent pbk is built from.
agent_row(conf, pbk) == IndexOf(conf.agent_pbks, pbk)

\* Game.__init__(configuration, initialization): the fields of the new Game
\* and the heap with the lists it allocated. gid names the Game object.
Game(conf, init, h, gid) ==
    LET fresh == {Ref(gid, f, pbk) : f \in {"initial", "current"},
                                     pbk \in Range(conf.agent_pbks)}
        row(pbk) == agent_row(conf, pbk)
        state(f, pbk) ==
            AgentState(init.initial_money_amounts[row(pbk)],
                       init.endowments[row(pbk)],
                       init.utility_params[row(pbk)],
                       Ref(gid, f, pbk))
    IN [configuration |-> conf,
        initialization |-> init,
        transactions |-> <<>>,
        initial_agent_states |->
            [pbk \in Range(conf.agent_pbks) |-> state("initial", pbk)],
        agent_states |->
            [pbk \in Range(conf.agent_pbks) |-> state("current", pbk)],
        good_states |->
            [pbk \in Range(conf.good_pbks) |-> GoodState(DEFAULT_PRICE)],
        heap |-> [r \in fresh |-> h[init.endowments[row(r[3])]]] @@ h]

\* Game.is_transaction_valid(tx)
is_transaction_valid(g, tx) ==
    LET share == share_of_tx_fee(g.configuration.tx_fee)
        seller_holdings == current_holdings(g.heap, g.agent_states[seller_pbk(tx)])
    IN IF g.agent_states[buyer_pbk(tx)].balance < tx.amount + share
       THEN FALSE
       ELSE \A good_id \in DOMAIN tx.quantities_by_good_pbk :
                ~(seller_holdings[good_id] < tx.quantities_by_good_pbk[good_id])

\* The validity check done by settling on the live state.
is_transaction_valid_call_on_live_state(g, tx) ==
    [game |-> IF is_transaction_valid(g, tx)
              THEN [g EXCEPT !.agent_states[buyer_pbk(tx)].balance =
                        @ - (tx.amount + share_of_tx_fee(g.configuration.tx_fee))]
              ELSE g,
     returned |-> IF is_transaction_valid(g, tx) THEN "True" ELSE "False"]

\* The call game.is_transaction_valid(tx): the Game after the call and what the
\* call returned. The method reads the buyer's balance and a copy of the
\* seller's holdings (AgentState.current_holdings), and assigns to no field.
is_transaction_valid_call(g, tx) ==
    [game |-> g,
     returned |-> IF is_transaction_valid(g, tx) THEN "True" ELSE "False"]

\* sum(tx.quantities_by_good_pbk.values())
nb_instances_traded(tx) == SumSeq(tx.quantities_by_good_pbk)

\* Lines 528-529 without the seller's decrement.
trade_good_buyer_only(h, buyer_ref, seller_ref, good_id, quantity) ==
    [h EXCEPT ![buyer_ref][good_id] = @ + quantity]

\* buyer_state._current_holdings[good_id] += quantity
\* seller_state._current_holdings[good_id] -= quantity
trade_good(h, buyer_ref, seller_ref, good_id, quantity) ==
    LET h1 == [h EXCEPT ![buyer_ref][good_id] = @ + quantity]
    IN [h1 EXCEPT ![seller_ref][good_id] = @ - quantity]

\* The loop of settle_transaction that records a price for every good of the
\* transaction, bought or not.
RECURSIVE update_holdings_and_all_prices(_, _, _)
update_holdings_and_all_prices(g, tx, good_id) ==
    IF good_id > Len(tx.quantities_by_good_pbk)
    THEN [game |-> g, raised |-> "none"]
    ELSE
        LET quantity == tx.quantities_by_good_pbk[good_id]
            good_pbk == g.configuration.good_pbks[good_id]
            buyer_ref == g.agent_states[buyer_pbk(tx)]._current_holdings
            seller_ref == g.agent_states[seller_pbk(tx)]._current_holdings
            g2 == [g EXCEPT !.heap =
                      trade_good(@, buyer_ref, seller_ref, good_id, quantity)]
        IN IF nb_instances_traded(tx) = 0
           THEN [game |-> g2, raised |-> "ZeroDivisionError"]
           ELSE update_holdings_and_all_prices(
                   [g2 EXCEPT !.good_states[good_pbk].price =
                       Quotient(tx.amount, nb_instances_traded(tx))],
                   tx, good_id + 1)

\* The loop of settle_transaction over the goods of tx from position good_id
\* on: holdings of the buyer and of the seller, and the price of each good
\* bought. The division raises ZeroDivisionError when the quantities sum to 0,
\* and what the loop did before stays done.
RECURSIVE update_holdings_and_prices(_, _, _)
update_holdings_and_prices(g, tx, good_id) ==
    IF good_id > Len(tx.quantities_by_good_pbk)
    THEN [game |-> g, raised |-> "none"]
    ELSE
        LET quantity == tx.quantities_by_good_pbk[good_id]
            good_pbk == g.configuration.good_pbks[good_id]
            buyer_ref == g.agent_states[buyer_pbk(tx)]._current_holdings
            seller_ref == g.agent_states[seller_pbk(tx)]._current_holdings
            g2 == [g EXCEPT !.heap =
                      trade_good(@, buyer_ref, seller_ref, good_id, quantity)]
        IN IF quantity > 0
           THEN IF nb_instances_traded(tx) = 0
                THEN [game |-> g2, raised |-> "ZeroDivisionError"]
                ELSE update_holdings_and_prices(
                        [g2 EXCEPT !.good_states[good_pbk].price =
                            Quotient(tx.amount, nb_instances_traded(tx))],
                        tx, good_id + 1)
           ELSE update_holdings_and_prices(g2, tx, good_id + 1)

\* Lines 536-539 with the seller credited the full amount.
update_balances_seller_pays_no_fee(g, tx) ==
    LET share == share_of_tx_fee(g.configuration.tx_fee)
        g1 == [g EXCEPT !.agent_states[buyer_pbk(tx)].balance =
                            @ - (tx.amount + share)]
    IN [g1 EXCEPT !.agent_states[seller_pbk(tx)].balance = @ + tx.amount]

\* buyer_state.balance -= tx.amount + share_of_tx_fee
\* seller_state.balance += tx.amount - share_of_tx_fee
update_balances(g, tx) ==
    LET share == share_of_tx_fee(g.configuration.tx_fee)
        g1 == [g EXCEPT !.agent_states[buyer_pbk(tx)].balance =
                            @ - (tx.amount + share)]
    IN [g1 EXCEPT !.agent_states[seller_pbk(tx)].balance =
                            @ + (tx.amount - share)]

\* settle_transaction with the append moved before the assertion.
settle_transaction_append_first(g, tx) ==
    LET g1 == [g EXCEPT !.transactions = Append(@, tx)]
        loop == update_holdings_and_prices(g1, tx, 1)
    IN IF ~is_transaction_valid(g, tx)
       THEN [game |-> g1, raised |-> "AssertionError"]
       ELSE IF loop.raised # "none" THEN loop
       ELSE [game |-> update_balances(loop.game, tx), raised |-> "none"]

\* Game.settle_transaction(tx): the Game after the call and how the call ended.
settle_transaction(g, tx) ==
    IF ~is_transaction_valid(g, tx)
    THEN [game |-> g, raised |-> "AssertionError"]
    ELSE
        LET g1 == [g EXCEPT !.transactions = Append(@, tx)]
            loop == update_holdings_and_prices(g1, tx, 1)
        IN IF loop.raised # "none" THEN loop
           ELSE [game |-> update_balances(loop.game, tx), raised |-> "none"]

\* Game.to_dict()
Game_to_dict(g) ==
    [configuration |-> g.configuration,
     initialization |-> g.initialization,
     transactions |-> [i \in DOMAIN g.transactions |->
                          Transaction_to_dict(g.transactions[i])]]

\* The loop of Game.from_dict: settle the transactions of the dict from
\* position i on, and stop at the first one that raises.
RECURSIVE replay(_, _, _)
replay(g, txs, i) ==
    IF i > Len(txs) THEN [game |-> g, raised |-> "none"]
    ELSE LET r == settle_transaction(g, Transaction_from_dict(txs[i]))
         IN IF r.raised # "none" THEN r ELSE replay(r.game, txs, i + 1)

\* Game.from_dict(d, crypto): a new Game (object gid) built from the
\* configuration and the initialization of d, with its transactions settled.
Game_from_dict(d, h, gid) ==
    replay(Game(d.configuration, d.initialization, h, gid), d.transactions, 1)

\* Game.__eq__
Game_eq(g1, g2) ==
    /\ g1.configuration = g2.configuration
    /\ g1.transactions = g2.transactions

\* ------------------------------------------------------------------ AgentState: scores and hypothetical states

\* The natural logarithm of 1 .. 8, times 10000 (cut to an integer).
Ln1e4 == <<0, 6931, 10986, 13863, 16094, 17917, 19459, 20794>>

\* logarithmic_utility(utility_params, good_bundle) of tac.helpers.misc, in
\* 1/10000 of the currency unit: the sum, over the goods held in a positive
\* quantity, of the utility weight times the logarithm of the quantity.
logarithmic_utility(utility_params, good_bundle) ==
    SumSeq([i \in DOMAIN good_bundle |->
               IF good_bundle[i] > 0 /\ good_bundle[i] <= Len(Ln1e4)
               THEN utility_params[i] * Ln1e4[good_bundle[i]]
               ELSE 0])

\* AgentState.get_score(), in 1/10000 of the currency unit.
get_score(h, state) ==
    logarithmic_utility(state._utility_params, current_holdings(h, state))
        + 100 * state.balance

\* The consistency check that looks at the money only.
check_transaction_is_consistent_money_only(h, state, tx, tx_fee) ==
    tx.is_sender_buyer => state.balance >= tx.amount + share_of_tx_fee(tx_fee)

\* AgentState.check_transaction_is_consistent(tx, tx_fee)
check_transaction_is_consistent(h, state, tx, tx_fee) ==
    IF tx.is_sender_buyer
    THEN state.balance >= tx.amount + share_of_tx_fee(tx_fee)
    ELSE \A good_id \in DOMAIN tx.quantities_by_good_pbk :
            h[state._current_holdings][good_id] >= tx.quantities_by_good_pbk[good_id]

\* The loop of AgentState.update over the goods of tx from position good_id
\* on: self._current_holdings[good_id] += quantity_delta, in place.
RECURSIVE update_holdings(_, _, _, _)
update_holdings(h, ref, tx, good_id) ==
    IF good_id > Len(tx.quantities_by_good_pbk) THEN h
    ELSE LET quantity == tx.quantities_by_good_pbk[good_id]
             quantity_delta == IF tx.is_sender_buyer THEN quantity ELSE -quantity
         IN update_holdings([h EXCEPT ![ref][good_id] = @ + quantity_delta],
                            ref, tx, good_id + 1)

\* AgentState.update(tx, tx_fee): the object and the heap after the call.
AgentState_update(h, state, tx, tx_fee) ==
    LET share == share_of_tx_fee(tx_fee)
        diff == IF tx.is_sender_buyer THEN tx.amount + share ELSE tx.amount - share
    IN [state |-> [state EXCEPT !.balance =
                      IF tx.is_sender_buyer THEN @ - diff ELSE @ + diff],
        heap |-> update_holdings(h, state._current_holdings, tx, 1)]

\* copy.copy(state) without a new object: the state itself.
AgentState_same_object(h, state, fresh) == [state |-> state, heap |-> h]

\* AgentState.__copy__: AgentState(self.balance, self.current_holdings,
\* self.utility_params), a new object with a new holdings list at fresh.
AgentState_copy(h, state, fresh) ==
    [state |-> AgentState(state.balance, state._current_holdings,
                          state._utility_params, fresh),
     heap |-> (fresh :> h[state._current_holdings]) @@ h]

\* The loop of AgentState.apply: new_state.update(tx, tx_fee) for the
\* transactions from position i on.
RECURSIVE apply_updates(_, _, _, _, _)
apply_updates(h, new_state, txs, tx_fee, i) ==
    IF i > Len(txs) THEN [state |-> new_state, heap |-> h]
    ELSE LET u == AgentState_update(h, new_state, txs[i], tx_fee)
         IN apply_updates(u.heap, u.state, txs, tx_fee, i + 1)

\* AgentState.apply(transactions, tx_fee): the state returned and the heap.
AgentState_apply(h, state, txs, tx_fee, fresh) ==
    LET c == AgentState_copy(h, state, fresh)
    IN apply_updates(c.heap, c.state, txs, tx_fee, 1)

\* AgentState.get_score_diff_from_transaction(tx, tx_fee): the difference
\* returned (1/10000 of the currency unit) and the heap after the call.
get_score_diff_from_transaction(h, state, tx, tx_fee, fresh) ==
    LET current_score == get_score(h, state)
        a == AgentState_apply(h, state, <<tx>>, tx_fee, fresh)
        new_score == get_score(a.heap, a.state)
    IN [result |-> new_score - current_score, heap |-> a.heap]

\* ------------------------------------------------------------------ dialogues, messages, lock manager

\* A dict as a function: d[k] = v, del d[k], list(d.values()).
Put(d, k, v) == (k :> v) @@ d
Drop(d, k) == [x \in DOMAIN d \ {k} |-> d[x]]

RECURSIVE SeqOfSet(_)
SeqOfSet(S) ==
    IF S = {} THEN <<>>
    ELSE LET x == CHOOSE y \in S : TRUE IN <<x>> \o SeqOfSet(S \ {x})

values(d) == LET ks == SeqOfSet(DOMAIN d) IN [i \in DOMAIN ks |-> d[ks[i]]]

\* A dialogue of the agent with the opponent: its label and the role of the
\* agent in it.
Dialogue(dialogue_id, opponent, is_seller) ==
    [dialogue_label |-> <<dialogue_id, opponent>>, is_seller |-> is_seller]

\* generate_transaction_id(agent_pbk, opponent_pbk, dialogue_id, is_seller):
\* one id for each (identity, counterparty, dialogue, role).
generate_transaction_id(agent_pbk, opponent_pbk, dialogue_id, is_seller) ==
    <<agent_pbk, opponent_pbk, dialogue_id, is_seller>>

\* A proposal: the price asked and the quantity of each good.
Proposal(price, quantities) == [price |-> price, quantities |-> quantities]

\* Transaction.from_proposal(proposal, transaction_id, is_buyer, counterparty,
\* sender, crypto)
Transaction_from_proposal(proposal, transaction_id, is_buyer, counterparty, sender) ==
    Transaction(transaction_id, is_buyer, counterparty, proposal.price,
                proposal.quantities, sender)

\* The messages: CFP, Propose, Accept, Decline(msg_id, dialogue_id,
\* destination, target, ...) and the message that carries a serialized
\* transaction, ByteMessage(msg_id, dialogue_id, destination, content).
CFP(msg_id, dialogue_id, destination, target, query) ==
    [performative |-> "CFP", msg_id |-> msg_id, dialogue_id |-> dialogue_id,
     destination |-> destination, target |-> target, query |-> query]

Propose(msg_id, dialogue_id, destination, target, proposals) ==
    [performative |-> "Propose", msg_id |-> msg_id, dialogue_id |-> dialogue_id,
     destination |-> destination, target |-> target, proposals |-> proposals]

Accept(msg_id, dialogue_id, destination, target) ==
    [performative |-> "Accept", msg_id |-> msg_id, dialogue_id |-> dialogue_id,
     destination |-> destination, target |-> target]

Decline(msg_id, dialogue_id, destination, target) ==
    [performative |-> "Decline", msg_id |-> msg_id, dialogue_id |-> dialogue_id,
     destination |-> destination, target |-> target]

ByteMessage(msg_id, dialogue_id, destination, content) ==
    [performative |-> "ByteMessage", msg_id |-> msg_id, dialogue_id |-> dialogue_id,
     destination |-> destination, content |-> content]

\* LockManager(): no lock and nothing pending. The pending maps are keyed by
\* <<dialogue label, message id>>.
LockManager ==
    [locks |-> <<>>, locks_as_buyer |-> <<>>, locks_as_seller |-> <<>>,
     pending_tx_proposals |-> <<>>, pending_tx_acceptances |-> <<>>]

\* lock_manager.add_lock(transaction, as_seller): fails when a lock with the
\* id of the transaction is held.
add_lock(lm, transaction, as_seller) ==
    IF transaction.transaction_id \in DOMAIN lm.locks
    THEN [lock_manager |-> lm, raised |-> "DuplicateLockError"]
    ELSE [lock_manager |->
             [lm EXCEPT !.locks = Put(@, transaction.transaction_id, transaction),
                        !.locks_as_seller =
                            IF as_seller THEN Put(@, transaction.transaction_id, transaction) ELSE @,
                        !.locks_as_buyer =
                            IF as_seller THEN @ ELSE Put(@, transaction.transaction_id, transaction)],
          raised |-> "none"]

\* lock_manager.pop_lock(transaction_id): nothing happens when no such lock
\* is held.
pop_lock(lm, transaction_id) ==
    [lm EXCEPT !.locks = Drop(@, transaction_id),
               !.locks_as_seller = Drop(@, transaction_id),
               !.locks_as_buyer = Drop(@, transaction_id)]

\* lock_manager.store_proposals(proposals, new_msg_id, dialogue, origin,
\* is_seller, crypto): the transaction of the proposal, pending under the
\* dialogue and the id of the Propose.
store_proposals(lm, proposals, new_msg_id, dialogue, origin, is_seller, public_key) ==
    LET transaction_id ==
            generate_transaction_id(public_key, origin, dialogue.dialogue_label[1], is_seller)
        transaction ==
            Transaction_from_proposal(proposals[1], transaction_id, ~is_seller,
                                      origin, public_key)
    IN [lm EXCEPT !.pending_tx_proposals =
            Put(@, <<dialogue.dialogue_label, new_msg_id>>, transaction)]

\* lock_manager.add_pending_acceptances(dialogue, msg_id, transaction)
add_pending_acceptances(lm, dialogue, msg_id, transaction) ==
    [lm EXCEPT !.pending_tx_acceptances =
        Put(@, <<dialogue.dialogue_label, msg_id>>, transaction)]

\* pop_pending_proposal that leaves the proposal pending.
peek_pending_proposal(lm, dialogue, proposal_id) ==
    LET key == <<dialogue.dialogue_label, proposal_id>>
    IN IF key \notin DOMAIN lm.pending_tx_proposals
       THEN [lock_manager |-> lm, transaction |-> <<>>, raised |-> "ProtocolError"]
       ELSE [lock_manager |-> lm,
             transaction |-> lm.pending_tx_proposals[key], raised |-> "none"]

\* lock_manager.pop_pending_proposal(dialogue, proposal_id): fails when
\* nothing is pending under the key.
pop_pending_proposal(lm, dialogue, proposal_id) ==
    LET key == <<dialogue.dialogue_label, proposal_id>>
    IN IF key \notin DOMAIN lm.pending_tx_proposals
       THEN [lock_manager |-> lm, transaction |-> <<>>, raised |-> "ProtocolError"]
       ELSE [lock_manager |-> [lm EXCEPT !.pending_tx_proposals = Drop(@, key)],
             transaction |-> lm.pending_tx_proposals[key], raised |-> "none"]

\* lock_manager.pop_pending_acceptances(dialogue, proposal_id)
pop_pending_acceptances(lm, dialogue, proposal_id) ==
    LET key == <<dialogue.dialogue_label, proposal_id>>
    IN IF key \notin DOMAIN lm.pending_tx_acceptances
       THEN [lock_manager |-> lm, transaction |-> <<>>, raised |-> "ProtocolError"]
       ELSE [lock_manager |-> [lm EXCEPT !.pending_tx_acceptances = Drop(@, key)],
             transaction |-> lm.pending_tx_acceptances[key], raised |-> "none"]

\* ------------------------------------------------------------------ WorldState

\* The methods that the class WorldState defines.
WorldState_methods ==
    {"update_on_cfp", "update_on_proposal", "update_on_declined_propose",
     "_from_transaction_update_price", "update_on_initial_accept",
     "_expected_initial_money_amount", "_expected_good_endowments",
     "_expected_utility_params", "expected_price", "_update_price"}

\* WorldState(opponent_pbks, good_pbks, initial_agent_state): for every good
\* a price model, here the list of the observations <<is_accepted, price>> it
\* was updated with.
WorldState(goods) == [good_price_models |-> [good_pbk \in Range(goods) |-> <<>>]]

\* round(price, 1) of the price num / den cents, in cents: the nearest
\* multiple of 10 cents (a tie to the even one).
round_1(num, den) ==
    LET q == num \div (10 * den)
        r == num % (10 * den)
    IN IF 2 * r > 10 * den \/ (2 * r = 10 * den /\ q % 2 = 1)
       THEN 10 * (q + 1) ELSE 10 * q

\* WorldState._from_transaction_update_price(transaction, is_accepted):
\* good_pbks lists every good bought once per unit, the price is the amount
\* divided by the length of that list, and _update_price feeds the rounded
\* price to the model of every good of the list.
WorldState_from_transaction_update_price(ws, good_pbks_of_game, transaction, is_accepted) ==
    LET q == transaction.quantities_by_good_pbk
        bought == {i \in DOMAIN q : q[i] > 0}
        len == SumSeq([i \in DOMAIN q |-> IF q[i] > 0 THEN q[i] ELSE 0])
    IN IF len = 0
       THEN [world_state |-> ws, raised |-> "ZeroDivisionError"]
       ELSE [world_state |->
                [ws EXCEPT !.good_price_models =
                    [good_pbk \in DOMAIN @ |->
                        IF \E i \in bought : good_pbks_of_game[i] = good_pbk
                        THEN Append(@[good_pbk],
                                    <<is_accepted, round_1(transaction.amount, len)>>)
                        ELSE @[good_pbk]]],
             raised |-> "none"]

\* world_state.<name>(transaction): the attribute lookup on the WorldState
\* object, then the call of the method found.
WorldState_call(ws, good_pbks_of_game, name, transaction) ==
    IF name \notin WorldState_methods
    THEN [world_state |-> ws, raised |-> "AttributeError"]
    ELSE IF name = "update_on_initial_accept"
    THEN WorldState_from_transaction_update_price(ws, good_pbks_of_game, transaction, TRUE)
    ELSE IF name = "update_on_declined_propose"
    THEN WorldState_from_transaction_update_price(ws, good_pbks_of_game, transaction, FALSE)
    ELSE [world_state |-> ws, raised |-> "none"]

\* ------------------------------------------------------------------ GameInstance

\* crypto.public_key of the agent, and the public key of the controller.
public_key == "tac_agent_1_pbk"
controller_pbk == "tac_controller_pbk"

\* The game instance of the agent once the game data arrived: its own
\* AgentState (built from the money, the endowment and the utility parameters
\* that the controller sent), the configuration, the belief state.
GameInstance(conf, money, endowment, utility_params, is_world_modeling, fresh) ==
    [agent_state |-> AgentState(money, endowment, utility_params, fresh),
     game_configuration |-> conf,
     controller_pbk |-> controller_pbk,
     is_world_modeling |-> is_world_modeling,
     world_state |-> WorldState(conf.good_pbks)]

\* game_instance.state_after_locks(is_seller): the agent state with the
\* locks held in the role applied (AgentState.apply), and the heap.
state_after_locks(gi, lm, h, is_seller) ==
    LET locked == IF is_seller THEN values(lm.locks_as_seller)
                               ELSE values(lm.locks_as_buyer)
    IN AgentState_apply(h, gi.agent_state, locked,
                        gi.game_configuration.tx_fee,
                        Ref("state_after_locks", "current", public_key))

\* game_instance.get_service_description(is_supply): the goods that the agent
\* supplies (those it holds) or demands (all).
get_service_description(gi, h, is_supply) ==
    IF is_supply
    THEN {i \in DOMAIN h[gi.agent_state._current_holdings] :
             h[gi.agent_state._current_holdings][i] > 0}
    ELSE DOMAIN h[gi.agent_state._current_holdings]

\* cfp.query.check(goods_description): the query names goods, and a
\* description satisfies it when it offers one of them.
query_check(query, goods_description) == query \cap goods_description # {}

\* ------------------------------------------------------------------ FIPABehaviour

\* How a handler ends: the game instance, the lock manager and the heap after
\* the call, the messages returned (none when the handler returns None or
\* raises) and the exception raised.
Return(gi, lm, h, messages) ==
    [game_instance |-> gi, lock_manager |-> lm, heap |-> h,
     returned |-> messages, raised |-> "none"]

Raise(gi, lm, h, exception) ==
    [game_instance |-> gi, lock_manager |-> lm, heap |-> h,
     returned |-> <<>>, raised |-> exception]

\* The id of a response that repeats the id of the message.
same_msg_id(msg_id) == msg_id

\* new_msg_id = msg.msg_id + 1
new_msg_id(msg_id) == msg_id + 1

\* The candidate proposals of game_instance.get_proposals(query, is_seller):
\* the bundles of the agent's strategy that offer a good of the query.
get_proposals(own_proposals, query, is_seller) ==
    {proposal \in own_proposals :
        \E i \in query : proposal.quantities[i] > 0}

\* The profitability test on the agent state itself, without the locks.
is_profitable_transaction_without_locks(gi, lm, h, transaction, dialogue) ==
    LET tx_fee == gi.game_configuration.tx_fee
        diff == get_score_diff_from_transaction(
                    h, gi.agent_state, transaction, tx_fee,
                    Ref("new_state", "current", public_key))
    IN IF ~check_transaction_is_consistent(h, gi.agent_state, transaction, tx_fee)
       THEN [result |-> FALSE, heap |-> h]
       ELSE [result |-> diff.result >= 0, heap |-> diff.heap]

\* FIPABehaviour._is_profitable_transaction(transaction, dialogue): the
\* result and the heap after the call.
is_profitable_transaction(gi, lm, h, transaction, dialogue) ==
    LET tx_fee == gi.game_configuration.tx_fee
        locked == state_after_locks(gi, lm, h, dialogue.is_seller)
        diff == get_score_diff_from_transaction(
                    locked.heap, locked.state, transaction, tx_fee,
                    Ref("new_state", "current", public_key))
    IN IF ~check_transaction_is_consistent(locked.heap, locked.state, transaction, tx_fee)
       THEN [result |-> FALSE, heap |-> locked.heap]
       ELSE [result |-> diff.result >= 0, heap |-> diff.heap]

\* FIPABehaviour.on_cfp(cfp, dialogue) of the behaviour whose crypto holds the
\* public key pbk, with the proposal that random.choice picks among the
\* candidates.
FIPABehaviour_on_cfp(pbk, gi, lm, h, cfp, dialogue, own_proposals, choice) ==
    LET goods_description == get_service_description(gi, h, dialogue.is_seller)
        id == new_msg_id(cfp.msg_id)
        proposals == <<choice>>
    IN IF ~query_check(cfp.query, goods_description)
       THEN Return(gi, lm, h,
                   <<Decline(id, cfp.dialogue_id, cfp.destination, cfp.msg_id)>>)
       ELSE IF get_proposals(own_proposals, cfp.query, dialogue.is_seller) = {}
       THEN Raise(gi, lm, h, "IndexError")
       ELSE Return(gi,
                   store_proposals(lm, proposals, id, dialogue, cfp.destination,
                                   dialogue.is_seller, pbk),
                   h,
                   <<Propose(id, cfp.dialogue_id, cfp.destination, cfp.msg_id,
                             proposals)>>)

\* on_cfp of the agent.
on_cfp(gi, lm, h, cfp, dialogue, own_proposals, choice) ==
    FIPABehaviour_on_cfp(public_key, gi, lm, h, cfp, dialogue, own_proposals, choice)

\* A Propose handler that answers but takes no lock when the transaction is
\* profitable.
on_propose_without_lock(gi, lm, h, propose, dialogue) ==
    LET transaction_id ==
            generate_transaction_id(public_key, propose.destination,
                                    propose.dialogue_id, dialogue.is_seller)
        transaction ==
            Transaction_from_proposal(propose.proposals[1], transaction_id,
                                      ~dialogue.is_seller, propose.destination,
                                      public_key)
        id == new_msg_id(propose.msg_id)
        profitable == is_profitable_transaction(gi, lm, h, transaction, dialogue)
    IN IF profitable.result
       THEN Return(gi, add_pending_acceptances(lm, dialogue, id, transaction),
                   profitable.heap,
                   <<Accept(id, propose.dialogue_id, propose.destination,
                            propose.msg_id)>>)
       ELSE Return(gi, lm, profitable.heap,
                   <<Decline(id, propose.dialogue_id, propose.destination,
                             propose.msg_id)>>)

\* A Propose handler that replaces a lock already held under the
\* transaction's id.
on_propose_overwriting_lock(gi, lm, h, propose, dialogue) ==
    LET transaction_id ==
            generate_transaction_id(public_key, propose.destination,
                                    propose.dialogue_id, dialogue.is_seller)
        transaction ==
            Transaction_from_proposal(propose.proposals[1], transaction_id,
                                      ~dialogue.is_seller, propose.destination,
                                      public_key)
        id == new_msg_id(propose.msg_id)
        profitable == is_profitable_transaction(gi, lm, h, transaction, dialogue)
        locking == add_lock(pop_lock(lm, transaction_id), transaction, dialogue.is_seller)
    IN IF profitable.result
       THEN Return(gi,
                   add_pending_acceptances(locking.lock_manager, dialogue, id,
                                           transaction),
                   profitable.heap,
                   <<Accept(id, propose.dialogue_id, propose.destination,
                            propose.msg_id)>>)
       ELSE Return(gi, lm, profitable.heap,
                   <<Decline(id, propose.dialogue_id, propose.destination,
                             propose.msg_id)>>)

\* A Propose handler that builds the transaction in the role of the other
\* side: the agent is the buyer of it iff it is the seller of the dialogue.
on_propose_in_the_other_role(pbk, gi, lm, h, propose, dialogue) ==
    LET transaction_id ==
            generate_transaction_id(pbk, propose.destination,
                                    propose.dialogue_id, dialogue.is_seller)
        transaction ==
            Transaction_from_proposal(propose.proposals[1], transaction_id,
                                      dialogue.is_seller, propose.destination, pbk)
        id == new_msg_id(propose.msg_id)
        profitable == is_profitable_transaction(gi, lm, h, transaction, dialogue)
        locking == add_lock(lm, transaction, dialogue.is_seller)
    IN IF profitable.result
       THEN IF locking.raised # "none"
            THEN Raise(gi, lm, profitable.heap, locking.raised)
            ELSE Return(gi,
                        add_pending_acceptances(locking.lock_manager, dialogue,
                                                id, transaction),
                        profitable.heap,
                        <<Accept(id, propose.dialogue_id, propose.destination,
                                 propose.msg_id)>>)
       ELSE Return(gi, lm, profitable.heap,
                   <<Decline(id, propose.dialogue_id, propose.destination,
                             propose.msg_id)>>)

\* FIPABehaviour.on_propose(propose, dialogue) of the behaviour whose crypto
\* holds the public key pbk.
FIPABehaviour_on_propose(pbk, gi, lm, h, propose, dialogue) ==
    LET proposal == propose.proposals[1]
        transaction_id ==
            generate_transaction_id(pbk, propose.destination,
                                    propose.dialogue_id, dialogue.is_seller)
        transaction ==
            Transaction_from_proposal(proposal, transaction_id, ~dialogue.is_seller,
                                      propose.destination, pbk)
        id == new_msg_id(propose.msg_id)
        profitable == is_profitable_transaction(gi, lm, h, transaction, dialogue)
        locking == add_lock(lm, transaction, dialogue.is_seller)
    IN IF profitable.result
       THEN IF locking.raised # "none"
            THEN Raise(gi, lm, profitable.heap, locking.raised)
            ELSE Return(gi,
                        add_pending_acceptances(locking.lock_manager, dialogue,
                                                id, transaction),
                        profitable.heap,
                        <<Accept(id, propose.dialogue_id, propose.destination,
                                 propose.msg_id)>>)
       ELSE Return(gi, lm, profitable.heap,
                   <<Decline(id, propose.dialogue_id, propose.destination,
                             propose.msg_id)>>)

\* on_propose of the agent.
on_propose(gi, lm, h, propose, dialogue) ==
    FIPABehaviour_on_propose(public_key, gi, lm, h, propose, dialogue)

\* A Decline handler that leaves the lock of the dialogue held.
on_decline_keeping_lock(pbk, gi, lm, h, decline, dialogue) ==
    LET key == <<dialogue.dialogue_label, decline.target>>
        modelling == gi.is_world_modeling /\ key \in DOMAIN lm.pending_tx_proposals
        popping == pop_pending_proposal(lm, dialogue, decline.target)
        updating == WorldState_call(gi.world_state, gi.game_configuration.good_pbks,
                                    "update_on_decline", popping.transaction)
    IN IF modelling
       THEN IF updating.raised # "none"
            THEN Raise([gi EXCEPT !.world_state = updating.world_state],
                       popping.lock_manager, h, updating.raised)
            ELSE Return([gi EXCEPT !.world_state = updating.world_state],
                        popping.lock_manager, h, <<>>)
       ELSE Return(gi, lm, h, <<>>)

\* FIPABehaviour.on_decline(decline, dialogue) of the behaviour whose crypto
\* holds the public key pbk.
FIPABehaviour_on_decline(pbk, gi, lm, h, decline, dialogue) ==
    LET key == <<dialogue.dialogue_label, decline.target>>
        modelling == gi.is_world_modeling /\ key \in DOMAIN lm.pending_tx_proposals
        popping == pop_pending_proposal(lm, dialogue, decline.target)
        updating == WorldState_call(gi.world_state, gi.game_configuration.good_pbks,
                                    "update_on_decline", popping.transaction)
        lm1 == IF modelling THEN popping.lock_manager ELSE lm
        gi1 == IF modelling THEN [gi EXCEPT !.world_state = updating.world_state]
                            ELSE gi
        transaction_id ==
            generate_transaction_id(pbk, decline.destination,
                                    decline.dialogue_id, dialogue.is_seller)
    IN IF modelling /\ updating.raised # "none"
       THEN Raise(gi1, lm1, h, updating.raised)
       ELSE IF transaction_id \in DOMAIN lm1.locks
       THEN Return(gi1, pop_lock(lm1, transaction_id), h, <<>>)
       ELSE Return(gi1, lm1, h, <<>>)

\* on_decline of the agent.
on_decline(gi, lm, h, decline, dialogue) ==
    FIPABehaviour_on_decline(public_key, gi, lm, h, decline, dialogue)

\* _on_initial_accept that reads the pending proposal and leaves it pending
\* when it declines.
on_initial_accept_keeping_proposal(gi, lm, h, accept, dialogue) ==
    LET peeking == peek_pending_proposal(lm, dialogue, accept.target)
        id == new_msg_id(accept.msg_id)
        profitable == is_profitable_transaction(gi, lm, h, peeking.transaction, dialogue)
    IN IF peeking.raised # "none"
       THEN Raise(gi, lm, h, peeking.raised)
       ELSE Return(gi, lm, profitable.heap,
                   <<Decline(id, accept.dialogue_id, accept.destination,
                             accept.msg_id)>>)

\* FIPABehaviour._on_initial_accept(accept, dialogue)
on_initial_accept(gi, lm, h, accept, dialogue) ==
    LET popping == pop_pending_proposal(lm, dialogue, accept.target)
        transaction == popping.transaction
        lm1 == popping.lock_manager
        id == new_msg_id(accept.msg_id)
        profitable == is_profitable_transaction(gi, lm1, h, transaction, dialogue)
        updating == WorldState_call(gi.world_state, gi.game_configuration.good_pbks,
                                    "update_on_accept", transaction)
        gi1 == IF gi.is_world_modeling
               THEN [gi EXCEPT !.world_state = updating.world_state] ELSE gi
        locking == add_lock(lm1, transaction, dialogue.is_seller)
    IN IF popping.raised # "none"
       THEN Raise(gi, lm, h, popping.raised)
       ELSE IF profitable.result
       THEN IF gi.is_world_modeling /\ updating.raised # "none"
            THEN Raise(gi1, lm1, profitable.heap, updating.raised)
            ELSE IF locking.raised # "none"
            THEN Raise(gi1, lm1, profitable.heap, locking.raised)
            ELSE Return(gi1, locking.lock_manager, profitable.heap,
                        <<ByteMessage(id, accept.dialogue_id, gi.controller_pbk,
                                      Transaction_to_dict(transaction)),
                          Accept(id, accept.dialogue_id, accept.destination,
                                 accept.msg_id)>>)
       ELSE Return(gi, lm1, profitable.heap,
                   <<Decline(id, accept.dialogue_id, accept.destination,
                             accept.msg_id)>>)

\* _on_match_accept that reads the pending acceptance and leaves it pending.
on_match_accept_keeping_acceptance(gi, lm, h, accept, dialogue) ==
    LET key == <<dialogue.dialogue_label, accept.target>>
    IN IF key \notin DOMAIN lm.pending_tx_acceptances
       THEN Raise(gi, lm, h, "ProtocolError")
       ELSE Return(gi, lm, h,
                   <<ByteMessage(new_msg_id(accept.msg_id), accept.dialogue_id,
                                 gi.controller_pbk,
                                 Transaction_to_dict(lm.pending_tx_acceptances[key]))>>)

\* _on_match_accept that also releases the lock of the transaction.
on_match_accept_releasing_lock(gi, lm, h, accept, dialogue) ==
    LET popping == pop_pending_acceptances(lm, dialogue, accept.target)
    IN IF popping.raised # "none"
       THEN Raise(gi, lm, h, popping.raised)
       ELSE Return(gi,
                   pop_lock(popping.lock_manager, popping.transaction.transaction_id),
                   h,
                   <<ByteMessage(new_msg_id(accept.msg_id), accept.dialogue_id,
                                 gi.controller_pbk,
                                 Transaction_to_dict(popping.transaction))>>)

\* FIPABehaviour._on_match_accept(accept, dialogue)
on_match_accept(gi, lm, h, accept, dialogue) ==
    LET popping == pop_pending_acceptances(lm, dialogue, accept.target)
    IN IF popping.raised # "none"
       THEN Raise(gi, lm, h, popping.raised)
       ELSE Return(gi, popping.lock_manager, h,
                   <<ByteMessage(new_msg_id(accept.msg_id), accept.dialogue_id,
                                 gi.controller_pbk,
                                 Transaction_to_dict(popping.transaction))>>)

\* An Accept handler that answers an Accept matching no pending entry with a
\* Decline.
on_accept_declining_unmatched(gi, lm, h, accept, dialogue) ==
    LET key == <<dialogue.dialogue_label, accept.target>>
    IN IF key \in DOMAIN lm.pending_tx_acceptances
       THEN on_match_accept(gi, lm, h, accept, dialogue)
       ELSE IF key \in DOMAIN lm.pending_tx_proposals
       THEN on_initial_accept(gi, lm, h, accept, dialogue)
       ELSE Return(gi, lm, h,
                   <<Decline(new_msg_id(accept.msg_id), accept.dialogue_id,
                             accept.destination, accept.msg_id)>>)

\* FIPABehaviour.on_accept(accept, dialogue)
on_accept(gi, lm, h, accept, dialogue) ==
    IF <<dialogue.dialogue_label, accept.target>> \in DOMAIN lm.pending_tx_acceptances
    THEN on_match_accept(gi, lm, h, accept, dialogue)
    ELSE on_initial_accept(gi, lm, h, accept, dialogue)

\* ------------------------------------------------------------------ specification

\* The Game object of the state.
TheGame ==
    [configuration |-> configuration,
     initialization |-> initialization,
     transactions |-> transactions,
     initial_agent_states |-> initial_agent_states,
     agent_states |-> agent_states,
     good_states |-> good_states,
     heap |-> heap]

SetGame(g) ==
    /\ configuration' = g.configuration
    /\ initialization' = g.initialization
    /\ transactions' = g.transactions
    /\ initial_agent_states' = g.initial_agent_states
    /\ agent_states' = g.agent_states
    /\ good_states' = g.good_states
    /\ heap' = g.heap

\* GameConfiguration(nb_agents, nb_goods, tx_fee, agent_pbk_to_name, good_pbk_to_name)
GameConfiguration(tx_fee) ==
    [nb_agents |-> Len(agent_pbks),
     nb_goods |-> Len(good_pbks),
     tx_fee |-> tx_fee,
     agent_pbks |-> agent_pbks,
     good_pbks |-> good_pbks]

\* GameInitialization(initial_money_amounts, endowments, utility_params, ...):
\* endowments is a list of lists, held by reference.
GameInitialization(money) ==
    [initial_money_amounts |-> money,
     endowments |-> [i \in DOMAIN agent_pbks |->
                        Ref("initialization", "endowments", agent_pbks[i])],
     utility_params |-> UtilityParams]

\* The lists of the endowment matrix.
EndowmentHeap ==
    [r \in {Ref("initialization", "endowments", agent_pbks[i]) : i \in DOMAIN agent_pbks}
        |-> Endowments[IndexOf(agent_pbks, r[3])]]

\* No message was handled yet.
NoMessage == [performative |-> "none"]
NoDialogue == [dialogue_label |-> <<>>]

\* No constructor was called yet; no agent is at the other end.
NoCall == [name |-> "none"]
NoAgent == [name |-> "none"]

\* The controller holds no configuration, no initialization.
NoObject == [class |-> "None"]

\* No template Agent was constructed.
NoMainLoop == [version |-> "none"]

\* The Game g of the controller, and the agent that received its game data:
\* a game instance with the agent's own copy of its state, no lock and
\* nothing pending, no message handled.
GameAndAgent(g, is_world_modeling) ==
    LET own == g.agent_states[public_key]
        fresh == Ref("game_instance", "agent_state", public_key)
    IN /\ configuration = g.configuration
       /\ initialization = g.initialization
       /\ transactions = g.transactions
       /\ initial_agent_states = g.initial_agent_states
       /\ agent_states = g.agent_states
       /\ good_states = g.good_states
       /\ heap = (fresh :> g.heap[own._current_holdings]) @@ g.heap
       /\ game_instance =
              GameInstance(g.configuration, own.balance, own._current_holdings,
                           own._utility_params, is_world_modeling, fresh)
       /\ lock_manager = LockManager
       /\ handled = 0
       /\ last_message = NoMessage
       /\ last_dialogue = NoDialogue
       /\ last_call = NoCall

\* The agent has no dialogue, no agent is at the other end and no message was
\* sent.
NoNetwork ==
    /\ dialogues = <<>>
    /\ ended = {}
    /\ opponent_agent = NoAgent
    /\ in_flight = {}
    /\ controller_inbox = <<>>
    /\ main_loop = NoMainLoop

\* A Game newly created from a configuration and an initialization.
Init ==
    /\ \E tx_fee \in TxFees, money \in InitialMoneyAmounts :
          GameAndAgent(Game(GameConfiguration(tx_fee), GameInitialization(money),
                            EndowmentHeap, "game"),
                       FALSE)
    /\ NoNetwork
    /\ raised = "none"
    /\ returned = "None"

\* What the calls on the Game leave alone: the agent.
agent == <<game_instance, lock_manager, handled, last_message, last_dialogue>>

\* What the calls on the Game and the handlers of the agent leave alone: the
\* construction of games, the other agent and the network.
elsewhere ==
    <<last_call, dialogues, ended, opponent_agent, in_flight, controller_inbox,
      main_loop>>

\* game.settle_transaction(tx), for any transaction.
SettleTransaction(tx) ==
    LET r == settle_transaction(TheGame, tx)
    IN /\ Len(r.game.transactions) <= MaxTx
       /\ SetGame(r.game)
       /\ raised' = r.raised
       /\ returned' = "None"
       /\ UNCHANGED <<agent, elsewhere>>

\* game.is_transaction_valid(tx), for any transaction, on a Game that has
\* settled fewer than MaxTx transactions.
IsTransactionValid(tx) ==
    LET r == is_transaction_valid_call(TheGame, tx)
    IN /\ Len(transactions) < MaxTx
       /\ SetGame(r.game)
       /\ returned' = r.returned
       /\ UNCHANGED <<raised, agent, elsewhere>>

Next ==
    \/ \E tx \in TxSet : SettleTransaction(tx)
    \/ \E tx \in TxSet : IsTransactionValid(tx)

Spec == Init /\ [][Next]_vars

\* ------------------------------------------------------------------ specification of the negotiation

\* The fees of the games that the agent negotiates in (cents).
NegotiationTxFees == {100}

\* The purchase settled before the negotiation: the agent bought one unit of
\* the first good from its first opponent.
Purchase ==
    Transaction("some_tx_id", TRUE, "tac_agent_0_pbk", 0, <<1, 0>>, public_key)

\* The dialogues of the agent: two as the seller, one as the buyer.
Dialogues ==
    {Dialogue(1, "tac_agent_0_pbk", TRUE), Dialogue(2, "tac_agent_2_pbk", TRUE),
     Dialogue(3, "tac_agent_0_pbk", FALSE)}

\* The ids of the CFP, of the Propose and of the Accept and Decline messages
\* received, and the targets of the Accept and Decline messages received.
CFPMsgIds == {1}
ProposeMsgIds == {1, 2}
ReplyMsgIds == {3}
Targets == {2, 3}

\* The queries of the CFPs received: for any of the goods, for the second
\* good, and one that no description satisfies.
Queries == {{1, 2}, {2}, {}}

\* The bundles that the agent's strategy proposes.
OwnProposals == {Proposal(1500, <<2, 0>>), Proposal(1500, <<0, 1>>)}

\* The candidate bundles of a call: those, or the first good's alone.
OwnProposalSets == {OwnProposals, {Proposal(1500, <<2, 0>>)}}

\* The proposals received.
Proposals ==
    {Proposal(1500, <<2, 0>>), Proposal(1500, <<0, 1>>), Proposal(50, <<0, 0>>),
     Proposal(1500, <<-1, 0>>), Proposal(1500, <<4, 0>>)}

\* The game that the negotiation starts in: created, then the purchase
\* settled.
NegotiationGame(tx_fee) ==
    settle_transaction(Game(GameConfiguration(tx_fee),
                            GameInitialization(<<2000, 2000, 2000>>),
                            EndowmentHeap, "game"),
                       Purchase).game

InitFIPA ==
    /\ \E tx_fee \in NegotiationTxFees, is_world_modeling \in BOOLEAN :
          GameAndAgent(NegotiationGame(tx_fee), is_world_modeling)
    /\ NoNetwork
    /\ raised = "none"
    /\ returned = <<>>

\* What the handlers leave alone: the Game of the controller.
game == <<configuration, initialization, initial_agent_states, agent_states,
          good_states, transactions>>

\* The state after the handler of message in dialogue ended as r: the
\* temporary objects of the call are gone from the heap.
Handled(message, dialogue, r) ==
    /\ handled < MaxMessages
    /\ handled' = handled + 1
    /\ last_message' = message
    /\ last_dialogue' = dialogue
    /\ game_instance' = r.game_instance
    /\ lock_manager' = r.lock_manager
    /\ heap' = [ref \in DOMAIN heap |-> r.heap[ref]]
    /\ returned' = r.returned
    /\ raised' = r.raised
    /\ UNCHANGED <<game, elsewhere>>

\* A CFP arrives in the dialogue.
OnCFP(dialogue, msg_id, query, own_proposals, choice) ==
    LET cfp == CFP(msg_id, dialogue.dialogue_label[1],
                   dialogue.dialogue_label[2], 0, query)
    IN Handled(cfp, dialogue,
               on_cfp(game_instance, lock_manager, heap, cfp, dialogue,
                      own_proposals, choice))

\* A Propose arrives in the dialogue.
OnPropose(dialogue, msg_id, proposal) ==
    LET propose == Propose(msg_id, dialogue.dialogue_label[1],
                           dialogue.dialogue_label[2], msg_id - 1, <<proposal>>)
    IN Handled(propose, dialogue,
               on_propose(game_instance, lock_manager, heap, propose, dialogue))

\* An Accept arrives in the dialogue.
OnAccept(dialogue, msg_id, target) ==
    LET accept == Accept(msg_id, dialogue.dialogue_label[1],
                         dialogue.dialogue_label[2], target)
    IN Handled(accept, dialogue,
               on_accept(game_instance, lock_manager, heap, accept, dialogue))

\* A Decline arrives in the dialogue.
OnDecline(dialogue, msg_id, target) ==
    LET decline == Decline(msg_id, dialogue.dialogue_label[1],
                           dialogue.dialogue_label[2], target)
    IN Handled(decline, dialogue,
               on_decline(game_instance, lock_manager, heap, decline, dialogue))

NextFIPA ==
    \/ \E dialogue \in Dialogues, msg_id \in CFPMsgIds, query \in Queries,
             own_proposals \in OwnProposalSets :
          \E choice \in IF get_proposals(own_proposals, query, dialogue.is_seller) = {}
                         THEN {Proposal(0, <<0, 0>>)}
                         ELSE get_proposals(own_proposals, query, dialogue.is_seller) :
             OnCFP(dialogue, msg_id, query, own_proposals, choice)
    \/ \E dialogue \in Dialogues, msg_id \in ProposeMsgIds, proposal \in Proposals :
          OnPropose(dialogue, msg_id, proposal)
    \/ \E dialogue \in Dialogues, msg_id \in ReplyMsgIds, target \in Targets :
          OnAccept(dialogue, msg_id, target)
    \/ \E dialogue \in Dialogues, msg_id \in ReplyMsgIds, target \in Targets :
          OnDecline(dialogue, msg_id, target)

SpecFIPA == InitFIPA /\ [][NextFIPA]_vars

\* ------------------------------------------------------------------ construction of configurations, initializations and games

\* A dict is the sequence of its <<key, value>> items, in insertion order,
\* with pairwise distinct keys.
keys(d) == [i \in DOMAIN d |-> d[i][1]]
dict_values(d) == [i \in DOMAIN d |-> d[i][2]]

\* all(e > 0 for row in matrix for e in row)
all_positive(matrix) ==
    \A i \in DOMAIN matrix : \A j \in DOMAIN matrix[i] : matrix[i][j] > 0

\* GameConfiguration._check_consistency on a configuration without the check
\* of the agents' names.
GameConfiguration_check_consistency_without_names(conf) ==
    IF /\ conf.tx_fee >= 0
       /\ conf.nb_agents > 1
       /\ conf.nb_goods > 1
       /\ Len(conf.agent_pbks) = conf.nb_agents
       /\ Len(conf.good_pbks) = conf.nb_goods
       /\ Cardinality(Range(conf.good_names)) = conf.nb_goods
    THEN "none"
    ELSE "AssertionError"

\* GameConfiguration._check_consistency(): the exception it raises, if any.
GameConfiguration_check_consistency(conf) ==
    IF ~(conf.tx_fee >= 0) THEN "AssertionError"
    ELSE IF ~(conf.nb_agents > 1) THEN "AssertionError"
    ELSE IF ~(conf.nb_goods > 1) THEN "AssertionError"
    ELSE IF ~(Len(conf.agent_pbks) = conf.nb_agents) THEN "AssertionError"
    ELSE IF ~(Cardinality(Range(conf.agent_names)) = conf.nb_agents) THEN "AssertionError"
    ELSE IF ~(Len(conf.good_pbks) = conf.nb_goods) THEN "AssertionError"
    ELSE IF ~(Cardinality(Range(conf.good_names)) = conf.nb_goods) THEN "AssertionError"
    ELSE "none"

\* GameConfiguration.__init__(nb_agents, nb_goods, tx_fee, agent_pbk_to_name,
\* good_pbk_to_name): the object, or the exception of the check.
GameConfiguration_init(nb_agents, nb_goods, tx_fee, agent_pbk_to_name, good_pbk_to_name) ==
    LET conf == [nb_agents |-> nb_agents,
                 nb_goods |-> nb_goods,
                 tx_fee |-> tx_fee,
                 agent_pbks |-> keys(agent_pbk_to_name),
                 agent_names |-> dict_values(agent_pbk_to_name),
                 good_pbks |-> keys(good_pbk_to_name),
                 good_names |-> dict_values(good_pbk_to_name)]
        checking == GameConfiguration_check_consistency(conf)
    IN [object |-> IF checking = "none" THEN conf ELSE "None", raised |-> checking]

\* GameInitialization._check_consistency(): the exception it raises, if any.
GameInitialization_check_consistency(init) ==
    IF ~(\A i \in DOMAIN init.initial_money_amounts : init.initial_money_amounts[i] >= 0)
    THEN "AssertionError"
    ELSE IF ~all_positive(init.endowments) THEN "AssertionError"
    ELSE IF ~all_positive(init.utility_params) THEN "AssertionError"
    ELSE IF ~(Len(init.endowments) = Len(init.initial_money_amounts)) THEN "AssertionError"
    ELSE IF ~(Len(init.endowments) = Len(init.utility_params)) THEN "AssertionError"
    ELSE IF init.eq_good_holdings = <<>> THEN "IndexError"
    ELSE IF ~(Len(init.eq_prices) = Len(init.eq_good_holdings[1])) THEN "AssertionError"
    ELSE IF ~(Len(init.eq_good_holdings) = Len(init.eq_money_holdings)) THEN "AssertionError"
    ELSE IF ~(\A i \in DOMAIN init.endowments :
                 Len(init.endowments[i]) = Len(init.utility_params[i]))
    THEN "AssertionError"
    ELSE "none"

\* GameInitialization.__init__(initial_money_amounts, endowments,
\* utility_params, eq_prices, eq_good_holdings, eq_money_holdings): the object,
\* or the exception of the check.
GameInitialization_init(initial_money_amounts, endowments, utility_params_of_agents, eq_prices, eq_good_holdings, eq_money_holdings) ==
    LET init == [initial_money_amounts |-> initial_money_amounts,
                 endowments |-> endowments,
                 utility_params |-> utility_params_of_agents,
                 eq_prices |-> eq_prices,
                 eq_good_holdings |-> eq_good_holdings,
                 eq_money_holdings |-> eq_money_holdings]
        checking == GameInitialization_check_consistency(init)
    IN [object |-> IF checking = "none" THEN init ELSE "None", raised |-> checking]

\* The money, the endowments, the utility parameters and the equilibrium that
\* the generation routines give for the numbers of agents and goods.
generate_money_endowments(nb_agents, money_endowment) ==
    [i \in 1..nb_agents |-> money_endowment]
generate_good_endowments(nb_goods, nb_agents, base_good_endowment) ==
    [i \in 1..nb_agents |-> [j \in 1..nb_goods |-> base_good_endowment]]
generate_utility_params(nb_agents, nb_goods) ==
    [i \in 1..nb_agents |-> [j \in 1..nb_goods |-> 10 * j]]

\* Game.generate_game(nb_agents, nb_goods, tx_fee, money_endowment,
\* base_good_endowment, ..., agent_pbk_to_name, good_pbk_to_name): the Game, or
\* the exception of the constructor that failed.
generate_game(nb_agents, nb_goods, tx_fee, money_endowment, base_good_endowment, agent_pbk_to_name, good_pbk_to_name) ==
    LET game_configuration ==
            GameConfiguration_init(nb_agents, nb_goods, tx_fee, agent_pbk_to_name,
                                   good_pbk_to_name)
        money_endowments == generate_money_endowments(nb_agents, money_endowment)
        good_endowments ==
            generate_good_endowments(nb_goods, nb_agents, base_good_endowment)
        utility_params_of_agents == generate_utility_params(nb_agents, nb_goods)
        game_initialization ==
            GameInitialization_init(money_endowments, good_endowments,
                                    utility_params_of_agents,
                                    [j \in 1..nb_goods |-> 1], good_endowments,
                                    money_endowments)
        pbks == keys(agent_pbk_to_name)
        lists == [i \in 1..nb_agents |-> Ref("initialization", "endowments", pbks[i])]
        h == [r \in Range(lists) |-> good_endowments[IndexOf(pbks, r[3])]]
    IN IF game_configuration.raised # "none"
       THEN [game |-> "None", raised |-> game_configuration.raised]
       ELSE IF game_initialization.raised # "none"
       THEN [game |-> "None", raised |-> game_initialization.raised]
       ELSE [game |-> Game(game_configuration.object,
                           [game_initialization.object EXCEPT !.endowments = lists],
                           h, "game"),
             raised |-> "none"]

\* ------------------------------------------------------------------ specification of the construction

\* The arguments the constructors are called with.
NbAgents == {1, 2, 3}
NbGoods == {1, 2, 3}
SetupTxFees == {-1, 0, 1}
AgentPbkToName ==
    {<<<<"tac_agent_0_pbk", "tac_agent_0">>, <<"tac_agent_1_pbk", "tac_agent_1">>>>,
     <<<<"tac_agent_0_pbk", "tac_agent_0">>, <<"tac_agent_1_pbk", "tac_agent_0">>>>,
     <<<<"tac_agent_0_pbk", "tac_agent_0">>, <<"tac_agent_1_pbk", "tac_agent_1">>,
       <<"tac_agent_2_pbk", "tac_agent_2">>>>,
     <<<<"tac_agent_0_pbk", "tac_agent_0">>, <<"tac_agent_1_pbk", "tac_agent_1">>,
       <<"tac_agent_2_pbk", "tac_agent_1">>>>}
GoodPbkToName ==
    {<<<<"tac_good_0", "tac_good_0_name">>, <<"tac_good_1", "tac_good_1_name">>>>,
     <<<<"tac_good_0", "tac_good_0_name">>, <<"tac_good_1", "tac_good_0_name">>>>,
     <<<<"tac_good_0", "tac_good_0_name">>, <<"tac_good_1", "tac_good_1_name">>,
       <<"tac_good_2", "tac_good_2_name">>>>,
     <<<<"tac_good_0", "tac_good_0_name">>>>}
MoneyLists == {<<0, 2000>>, <<-1, 2000>>, <<2000, 2000, 2000>>}
EndowmentMatrices ==
    {<<<<1, 1>>, <<2, 1>>>>, <<<<0, 1>>, <<2, 1>>>>,
     <<<<1, 1>>, <<2, 1>>, <<1, 2>>>>, <<<<1, 1, 1>>, <<2, 1, 1>>>>}
UtilityMatrices ==
    {<<<<20, 40>>, <<10, 50>>>>, <<<<0, 40>>, <<10, 50>>>>,
     <<<<20, 40>>, <<10, 50>>, <<40, 30>>>>, <<<<20, 40>>, <<10>>>>}
EqPrices == {<<1, 1>>, <<1, 1, 1>>}
EqGoodHoldings ==
    {<<<<1, 1>>, <<2, 1>>>>, <<<<1, 1, 1>>, <<1, 1, 1>>, <<1, 1, 1>>>>, <<>>}
EqMoneyHoldings == {<<2000, 2000>>, <<2000, 2000, 2000>>}

\* Nothing constructed yet: no Game, and an agent without game data.
InitSetup ==
    /\ configuration = NoObject
    /\ initialization = NoObject
    /\ heap = <<>>
    /\ initial_agent_states = <<>>
    /\ agent_states = <<>>
    /\ good_states = <<>>
    /\ transactions = <<>>
    /\ raised = "none"
    /\ returned = "None"
    /\ game_instance = "None"
    /\ lock_manager = LockManager
    /\ handled = 0
    /\ last_message = NoMessage
    /\ last_dialogue = NoDialogue
    /\ last_call = NoCall
    /\ NoNetwork

\* What the constructors leave alone.
network ==
    <<dialogues, ended, opponent_agent, in_flight, controller_inbox, main_loop>>

\* GameConfiguration(nb_agents, nb_goods, tx_fee, agent_pbk_to_name,
\* good_pbk_to_name), while the controller has no Game yet.
NewGameConfiguration(nb_agents, nb_goods, tx_fee, agent_pbk_to_name, good_pbk_to_name) ==
    LET r == GameConfiguration_init(nb_agents, nb_goods, tx_fee, agent_pbk_to_name,
                                    good_pbk_to_name)
    IN /\ DOMAIN agent_states = {}
       /\ last_call' = [name |-> "GameConfiguration",
                        nb_agents |-> nb_agents, nb_goods |-> nb_goods,
                        tx_fee |-> tx_fee,
                        agent_pbk_to_name |-> agent_pbk_to_name,
                        good_pbk_to_name |-> good_pbk_to_name]
       /\ returned' = IF r.raised = "none" THEN "GameConfiguration" ELSE "None"
       /\ raised' = r.raised
       /\ UNCHANGED <<game, heap, agent, network>>

\* GameInitialization(initial_money_amounts, endowments, utility_params,
\* eq_prices, eq_good_holdings, eq_money_holdings)
NewGameInitialization(initial_money_amounts, endowments, utility_params_of_agents, eq_prices, eq_good_holdings, eq_money_holdings) ==
    LET r == GameInitialization_init(initial_money_amounts, endowments,
                                     utility_params_of_agents, eq_prices,
                                     eq_good_holdings, eq_money_holdings)
    IN /\ DOMAIN agent_states = {}
       /\ last_call' = [name |-> "GameInitialization",
                        initial_money_amounts |-> initial_money_amounts,
                        endowments |-> endowments,
                        utility_params |-> utility_params_of_agents,
                        eq_prices |-> eq_prices,
                        eq_good_holdings |-> eq_good_holdings,
                        eq_money_holdings |-> eq_money_holdings]
       /\ returned' = IF r.raised = "none" THEN "GameInitialization" ELSE "None"
       /\ raised' = r.raised
       /\ UNCHANGED <<game, heap, agent, network>>

\* Game.generate_game(...): the controller's Game becomes the one generated.
GenerateGame(nb_agents, nb_goods, tx_fee, agent_pbk_to_name, good_pbk_to_name) ==
    LET r == generate_game(nb_agents, nb_goods, tx_fee, 2000, 2, agent_pbk_to_name,
                           good_pbk_to_name)
    IN /\ DOMAIN agent_states = {}
       /\ last_call' = [name |-> "generate_game",
                        nb_agents |-> nb_agents, nb_goods |-> nb_goods,
                        tx_fee |-> tx_fee,
                        agent_pbk_to_name |-> agent_pbk_to_name,
                        good_pbk_to_name |-> good_pbk_to_name]
       /\ raised' = r.raised
       /\ IF r.raised = "none"
          THEN SetGame(r.game) /\ returned' = "Game"
          ELSE UNCHANGED <<game, heap>> /\ returned' = "None"
       /\ UNCHANGED <<agent, network>>

NextSetup ==
    \/ \E nb_agents \in NbAgents, nb_goods \in NbGoods, tx_fee \in SetupTxFees,
          agent_pbk_to_name \in AgentPbkToName, good_pbk_to_name \in GoodPbkToName :
          NewGameConfiguration(nb_agents, nb_goods, tx_fee, agent_pbk_to_name,
                               good_pbk_to_name)
    \/ \E initial_money_amounts \in MoneyLists, endowments \in EndowmentMatrices,
          utility_params_of_agents \in UtilityMatrices, eq_prices \in EqPrices,
          eq_good_holdings \in EqGoodHoldings, eq_money_holdings \in EqMoneyHoldings :
          NewGameInitialization(initial_money_amounts, endowments,
                                utility_params_of_agents, eq_prices,
                                eq_good_holdings, eq_money_holdings)
    \/ \E nb_agents \in NbAgents, nb_goods \in NbGoods, tx_fee \in SetupTxFees,
          agent_pbk_to_name \in AgentPbkToName, good_pbk_to_name \in GoodPbkToName :
          GenerateGame(nb_agents, nb_goods, tx_fee, agent_pbk_to_name,
                       good_pbk_to_name)

SpecSetup == InitSetup /\ [][NextSetup]_vars

\* ------------------------------------------------------------------ specification of the handshake

\* The agent at the other end of the dialogues.
opponent_pbk == "tac_agent_0_pbk"

\* The ids of the dialogues that the two agents hold, the queries of their
\* CFPs and the bundles that their strategies propose.
HandshakeDialogueIds == {1, 2}
HandshakeQueries == {{1}, {2}}
HandshakeProposals ==
    {Proposal(1200, <<2, 0>>), Proposal(1500, <<2, 0>>), Proposal(1500, <<0, 1>>)}

\* A message on its way: the agent it goes to, the agent that sent it, and
\* whether a copy of it was delivered already.
Envelope(to, sender, message) ==
    [to |-> to, sender |-> sender, message |-> message, repeated |-> FALSE]

\* The behaviour of an agent: its crypto, its game instance with the lock
\* manager, its list objects and its dialogues.
Behaviour(pbk, gi, lm, h, ds) ==
    [public_key |-> pbk, game_instance |-> gi, lock_manager |-> lm, heap |-> h,
     dialogues |-> ds]

\* The behaviour of the agent with the public key pbk.
BehaviourOf(pbk) ==
    IF pbk = public_key
    THEN Behaviour(public_key, game_instance, lock_manager, heap, dialogues)
    ELSE opponent_agent

\* The agent at the other end of the dialogues of the agent pbk.
other(pbk) == IF pbk = public_key THEN opponent_pbk ELSE public_key

\* The two agents received the data of the game g: each has a game instance
\* with its own copy of its state, no lock, nothing pending and no dialogue,
\* and no message was sent.
InitHandshake ==
    /\ \E tx_fee \in NegotiationTxFees, is_world_modeling \in BOOLEAN,
          opponent_is_world_modeling \in BOOLEAN :
          LET g == NegotiationGame(tx_fee)
              opp == g.agent_states[opponent_pbk]
              fresh == Ref("game_instance", "agent_state", opponent_pbk)
          IN /\ GameAndAgent(g, is_world_modeling)
             /\ opponent_agent =
                    Behaviour(opponent_pbk,
                              GameInstance(g.configuration, opp.balance,
                                           opp._current_holdings, opp._utility_params,
                                           opponent_is_world_modeling, fresh),
                              LockManager,
                              fresh :> g.heap[opp._current_holdings],
                              <<>>)
    /\ dialogues = <<>>
    /\ ended = {}
    /\ in_flight = {}
    /\ controller_inbox = <<>>
    /\ main_loop = NoMainLoop
    /\ raised = "none"
    /\ returned = <<>>

\* The behaviour b after its handler ended as r: the temporary objects of the
\* call are gone from the heap.
after_call(b, r) ==
    [b EXCEPT !.game_instance = r.game_instance,
              !.lock_manager = r.lock_manager,
              !.heap = [ref \in DOMAIN b.heap |-> r.heap[ref]]]

\* The two agents after the agent pbk became b.
Becomes(pbk, b) ==
    IF pbk = public_key
    THEN /\ game_instance' = b.game_instance
         /\ lock_manager' = b.lock_manager
         /\ heap' = [ref \in DOMAIN heap |->
                        IF ref \in DOMAIN b.heap THEN b.heap[ref] ELSE heap[ref]]
         /\ dialogues' = b.dialogues
         /\ UNCHANGED opponent_agent
    ELSE /\ opponent_agent' = b
         /\ UNCHANGED <<game_instance, lock_manager, heap, dialogues>>

\* The agent initiator opens the dialogue dialogue_id with the other agent, as
\* the seller or as the buyer, and sends the CFP; the other agent holds the
\* dialogue in the other role.
StartDialogue(initiator, is_seller, dialogue_id, query) ==
    LET b == BehaviourOf(initiator)
        o == BehaviourOf(other(initiator))
        cfp == CFP(1, dialogue_id, other(initiator), 0, query)
    IN /\ <<dialogue_id, other(initiator)>> \notin DOMAIN b.dialogues
       /\ <<dialogue_id, initiator>> \notin DOMAIN o.dialogues
       /\ IF initiator = public_key
          THEN /\ dialogues' = Put(dialogues, <<dialogue_id, opponent_pbk>>, is_seller)
               /\ opponent_agent' =
                      [opponent_agent EXCEPT !.dialogues =
                          Put(@, <<dialogue_id, public_key>>, ~is_seller)]
          ELSE /\ dialogues' = Put(dialogues, <<dialogue_id, opponent_pbk>>, ~is_seller)
               /\ opponent_agent' =
                      [opponent_agent EXCEPT !.dialogues =
                          Put(@, <<dialogue_id, public_key>>, is_seller)]
       /\ in_flight' = in_flight \cup {Envelope(other(initiator), initiator, cfp)}
       /\ UNCHANGED <<game, heap, game_instance, lock_manager, handled, last_message,
                      last_dialogue, last_call, controller_inbox, raised, returned,
                      ended, main_loop>>

\* The message of an envelope as the agent it goes to receives it: its
\* destination field names the agent that sent it.
received(envelope) == [envelope.message EXCEPT !.destination = envelope.sender]

\* The dialogue of the agent b that an envelope belongs to.
dialogue_of(b, envelope) ==
    Dialogue(envelope.message.dialogue_id, envelope.sender,
             b.dialogues[<<envelope.message.dialogue_id, envelope.sender>>])

\* The handler of the behaviour b for a message received in a dialogue.
react(b, message, dialogue, choice) ==
    CASE message.performative = "CFP" ->
            FIPABehaviour_on_cfp(b.public_key, b.game_instance, b.lock_manager,
                                 b.heap, message, dialogue, HandshakeProposals, choice)
      [] message.performative = "Propose" ->
            FIPABehaviour_on_propose(b.public_key, b.game_instance, b.lock_manager,
                                     b.heap, message, dialogue)
      [] message.performative = "Accept" ->
            on_accept(b.game_instance, b.lock_manager, b.heap, message, dialogue)
      [] message.performative = "Decline" ->
            FIPABehaviour_on_decline(b.public_key, b.game_instance, b.lock_manager,
                                     b.heap, message, dialogue)

\* The messages of a list for the controller, as the controller receives
\* them from sender, and the envelopes of the others.
to_controller(sender, messages) ==
    SelectSeq([i \in DOMAIN messages |-> Envelope(messages[i].destination, sender, messages[i])],
              LAMBDA e : e.to = controller_pbk)

to_agents(sender, messages) ==
    {Envelope(messages[i].destination, sender, messages[i]) :
        i \in {j \in DOMAIN messages : messages[j].destination # controller_pbk}}

\* The proposals that random.choice may pick when the agent b handles the
\* message of an envelope.
choices(b, envelope) ==
    LET candidates == get_proposals(HandshakeProposals, envelope.message.query,
                                    dialogue_of(b, envelope).is_seller)
    IN IF envelope.message.performative # "CFP" \/ candidates = {}
       THEN {Proposal(0, <<0, 0>>)}
       ELSE candidates

\* The handler of the agent that an envelope goes to runs on its message;
\* the messages that the handler returns are sent, and the envelopes of
\* remaining stay on their way.
Delivery(envelope, choice, remaining) ==
    LET b == BehaviourOf(envelope.to)
        message == received(envelope)
        dialogue == dialogue_of(b, envelope)
        r == react(b, message, dialogue, choice)
    IN /\ envelope \in in_flight
       /\ envelope.to = public_key => handled < MaxMessages
       /\ Becomes(envelope.to, after_call(b, r))
       /\ raised' = r.raised
       /\ returned' = r.returned
       /\ in_flight' = remaining \cup to_agents(envelope.to, r.returned)
       /\ ended' = IF message.performative = "Decline"
                   THEN ended \cup {<<envelope.to, message.dialogue_id>>}
                   ELSE ended
       /\ controller_inbox' = controller_inbox \o to_controller(envelope.to, r.returned)
       /\ IF envelope.to = public_key
          THEN /\ handled' = handled + 1
               /\ last_message' = message
               /\ last_dialogue' = dialogue
          ELSE UNCHANGED <<handled, last_message, last_dialogue>>
       /\ UNCHANGED <<game, last_call, main_loop>>

\* An envelope reaches its agent.
Deliver(envelope, choice) ==
    Delivery(envelope, choice, in_flight \ {envelope})

\* The network delivers a copy of an Accept: the agent handles it, and the
\* Accept itself is still on its way.
DeliverCopy(envelope) ==
    /\ envelope.message.performative = "Accept"
    /\ Delivery(envelope, Proposal(0, <<0, 0>>),
                (in_flight \ {envelope}) \cup {[envelope EXCEPT !.repeated = TRUE]})

NextHandshake ==
    \/ \E initiator \in {public_key, opponent_pbk}, is_seller \in BOOLEAN,
             dialogue_id \in HandshakeDialogueIds, query \in HandshakeQueries :
          StartDialogue(initiator, is_seller, dialogue_id, query)
    \/ \E envelope \in in_flight :
          \E choice \in choices(BehaviourOf(envelope.to), envelope) :
             Deliver(envelope, choice)
    \/ \E envelope \in in_flight : DeliverCopy(envelope)

SpecHandshake == InitHandshake /\ [][NextHandshake]_vars

\* ------------------------------------------------------------------ specification of the end of the dialogues

\* The handler of a settlement confirmation: the lock of the confirmed
\* transaction is released.
on_transaction_confirmed(lm, transaction_id) == pop_lock(lm, transaction_id)

\* The cancellation of the dialogue d with the agent opponent, by the agent
\* pbk in the role is_seller: its pending entries are dropped and its lock is
\* released.
cancel_dialogue(lm, pbk, opponent, d, is_seller) ==
    LET kept(pending) == {key \in DOMAIN pending : key[1] # <<d, opponent>>}
        lm1 == [lm EXCEPT
                   !.pending_tx_proposals = [key \in kept(@) |-> @[key]],
                   !.pending_tx_acceptances = [key \in kept(@) |-> @[key]]]
    IN pop_lock(lm1, generate_transaction_id(pbk, opponent, d, is_seller))

\* What the controller and the timeouts leave alone.
calls ==
    <<game, handled, last_message, last_dialogue, last_call, raised, returned,
      main_loop>>

\* The controller confirms the settlement message that arrived first: the
\* agent that sent it handles the confirmation, and its dialogue has ended.
ConfirmSettlement ==
    /\ controller_inbox # <<>>
    /\ LET e == Head(controller_inbox)
           b == BehaviourOf(e.sender)
       IN /\ Becomes(e.sender,
                     [b EXCEPT !.lock_manager =
                         on_transaction_confirmed(@, e.message.content[1])])
          /\ ended' = ended \cup {<<e.sender, e.message.dialogue_id>>}
    /\ controller_inbox' = Tail(controller_inbox)
    /\ UNCHANGED <<calls, in_flight>>

\* The controller rejects the settlement message that arrived first: no
\* confirmation is sent.
RejectSettlement ==
    /\ controller_inbox # <<>>
    /\ controller_inbox' = Tail(controller_inbox)
    /\ UNCHANGED <<calls, in_flight, heap, game_instance, lock_manager, dialogues,
                   opponent_agent, ended>>

\* The dialogue d of the agent pbk times out while no message of it is on
\* its way: the agent cancels it.
Timeout(pbk, d) ==
    LET b == BehaviourOf(pbk)
        label == <<d, other(pbk)>>
    IN /\ label \in DOMAIN b.dialogues
       /\ <<pbk, d>> \notin ended
       /\ \A envelope \in in_flight : envelope.message.dialogue_id # d
       /\ Becomes(pbk,
                  [b EXCEPT !.lock_manager =
                      cancel_dialogue(@, pbk, other(pbk), d, b.dialogues[label])])
       /\ ended' = ended \cup {<<pbk, d>>}
       /\ UNCHANGED <<calls, in_flight, controller_inbox>>

NextRelease ==
    \/ \E initiator \in {public_key, opponent_pbk}, is_seller \in BOOLEAN,
             dialogue_id \in HandshakeDialogueIds, query \in HandshakeQueries :
          StartDialogue(initiator, is_seller, dialogue_id, query)
    \/ \E envelope \in in_flight :
          \E choice \in choices(BehaviourOf(envelope.to), envelope) :
             Deliver(envelope, choice)
    \/ ConfirmSettlement
    \/ RejectSettlement
    \/ \E pbk \in {public_key, opponent_pbk}, d \in HandshakeDialogueIds :
          Timeout(pbk, d)

SpecRelease == InitHandshake /\ [][NextRelease]_vars

\* ------------------------------------------------------------------ specification of the main loop

\* The runs of the main loop stop after MaxIterations iterations, and a
\* method of the agent calls stop() at most MaxStops times.
MaxIterations == 2
MaxStops == 2

\* The registries of handlers and of behaviours: protocol id -> object.
HandlerRegistries == {<<>>, [fipa |-> "FIPAHandler"]}
BehaviourRegistries == {<<>>, [fipa |-> "FIPABehaviour"]}

\* Agent.__init__ of tac.aea.agent ("aea") and of tac.agents.v1.agent ("v1"),
\* followed by the assignments of a subclass: the mailbox (None in the
\* template), whether it is connected, and the two registries. pc is the
\* position of the thread that calls start(), thread the position of a second
\* thread that calls stop(), log the calls made so far.
Agent(version, debug, mailbox, is_connected, handlers, behaviours) ==
    [version |-> version,
     debug |-> debug,
     mailbox |-> mailbox,
     is_connected |-> is_connected,
     _is_stopped |-> TRUE,
     _handlers |-> handlers,
     _behaviours |-> behaviours,
     pc |-> "start",
     thread |-> "idle",
     iterations |-> 0,
     stops |-> 0,
     log |-> <<>>,
     asked_again |-> FALSE,
     raised |-> "none"]

\* Agent.handlers
Agent_handlers(a) == a._behaviours

\* Agent.behaviours
Agent_behaviours(a) == a._behaviours

\* An agent_state that does not look at the liveness.
agent_state_of_mailbox(a) ==
    IF a.mailbox = "None" \/ ~a.is_connected THEN "initiated" ELSE "running"

\* Agent.agent_state
Agent_agent_state(a) ==
    IF a.mailbox = "None" \/ ~a.is_connected THEN "initiated"
    ELSE IF a.is_connected /\ a._is_stopped THEN "connected"
    ELSE IF a.is_connected /\ ~a._is_stopped THEN "running"
    ELSE "ValueError"

\* mailbox.connect() of the aea agent, mail_box.start() of the v1 agent.
MailBox_connect(a) ==
    [a EXCEPT !.is_connected = TRUE, !.log = Append(@, "connect")]

\* mailbox.disconnect() of the aea agent, mail_box.stop() of the v1 agent:
\* asked_again records a call made while the mailbox was not connected.
MailBox_disconnect(a) ==
    [a EXCEPT !.asked_again = @ \/ ~a.is_connected,
              !.is_connected = FALSE,
              !.log = Append(@, "disconnect")]

\* Agent.stop(), run without interruption. None has no attribute
\* is_connected, nor stop.
Agent_stop(a) ==
    LET stopped == [a EXCEPT !._is_stopped = TRUE]
    IN IF a.mailbox = "None" THEN [stopped EXCEPT !.raised = "AttributeError"]
       ELSE IF a.version = "aea"
       THEN IF a.is_connected THEN MailBox_disconnect(stopped) ELSE stopped
       ELSE MailBox_disconnect(stopped)

\* Agent.start(), up to the call of _run_main_loop.
Agent_start(a) ==
    IF a.version = "aea"
    THEN IF ~a.debug /\ a.mailbox = "None" THEN [a EXCEPT !.raised = "AttributeError"]
         ELSE LET connected == IF ~a.debug /\ ~a.is_connected
                               THEN MailBox_connect(a) ELSE a
              IN [connected EXCEPT !._is_stopped = FALSE]
    ELSE IF a.mailbox = "None" THEN [a EXCEPT !.raised = "AttributeError"]
         ELSE [MailBox_connect(a) EXCEPT !._is_stopped = FALSE]

\* What the template Agent leaves alone.
negotiation ==
    <<game, heap, raised, returned, game_instance, lock_manager, handled,
      last_message, last_dialogue, last_call, dialogues, ended, opponent_agent,
      in_flight, controller_inbox>>

\* A template Agent was constructed, and nothing else.
InitAgent ==
    /\ configuration = NoObject
    /\ initialization = NoObject
    /\ heap = <<>>
    /\ initial_agent_states = <<>>
    /\ agent_states = <<>>
    /\ good_states = <<>>
    /\ transactions = <<>>
    /\ raised = "none"
    /\ returned = "None"
    /\ game_instance = "None"
    /\ lock_manager = LockManager
    /\ handled = 0
    /\ last_message = NoMessage
    /\ last_dialogue = NoDialogue
    /\ last_call = NoCall
    /\ dialogues = <<>>
    /\ ended = {}
    /\ opponent_agent = NoAgent
    /\ in_flight = {}
    /\ controller_inbox = <<>>
    /\ \E version \in {"aea", "v1"}, debug \in BOOLEAN,
          mailbox \in {"None", "MailBox"}, is_connected \in BOOLEAN,
          handlers \in HandlerRegistries, behaviours \in BehaviourRegistries :
          /\ version = "v1" => ~debug /\ handlers = <<>> /\ behaviours = <<>>
          /\ mailbox = "None" => ~is_connected
          /\ main_loop = Agent(version, debug, mailbox, is_connected, handlers, behaviours)

\* The thread of start() goes on at pc, or ends with the exception raised.
GoesOn(a, pc) ==
    /\ main_loop' = [a EXCEPT !.pc = IF a.raised # "none" THEN "raised" ELSE pc]
    /\ UNCHANGED negotiation

\* start() is called: _run_main_loop begins with setup() in the aea agent,
\* with the loop in the v1 agent.
Start ==
    /\ main_loop.pc = "start"
    /\ GoesOn(Agent_start(main_loop),
              IF main_loop.version = "aea" THEN "setup" ELSE "while")

\* setup() is called and returns.
Setup ==
    /\ main_loop.pc = "setup"
    /\ GoesOn([main_loop EXCEPT !.log = Append(@, "setup")], "while")

\* The test of the loop: act() is called, or the loop is left.
While ==
    /\ main_loop.pc = "while"
    /\ IF main_loop._is_stopped
       THEN GoesOn(main_loop, IF main_loop.version = "aea" THEN "teardown" ELSE "stop")
       ELSE /\ main_loop.iterations < MaxIterations
            /\ GoesOn([main_loop EXCEPT !.iterations = @ + 1,
                                        !.log = Append(@, "act")], "act")

\* act() returns, and after the sleep react() is called.
Act ==
    /\ main_loop.pc = "act"
    /\ GoesOn([main_loop EXCEPT !.log = Append(@, "react")], "react")

\* react() returns and update() is called.
React ==
    /\ main_loop.pc = "react"
    /\ GoesOn([main_loop EXCEPT !.log = Append(@, "update")], "update")

\* update() returns.
Update ==
    /\ main_loop.pc = "update"
    /\ GoesOn(main_loop, "while")

\* teardown() is called and returns.
Teardown ==
    /\ main_loop.pc = "teardown"
    /\ GoesOn([main_loop EXCEPT !.log = Append(@, "teardown")], "stop")

\* The stop() at the end of _run_main_loop, and the return of start().
Exit ==
    /\ main_loop.pc = "stop"
    /\ GoesOn(Agent_stop(main_loop), "exited")

\* act(), react() or update() calls stop() while it runs.
StopFromMethod ==
    /\ main_loop.pc \in {"act", "react", "update"}
    /\ main_loop.stops < MaxStops
    /\ GoesOn(Agent_stop([main_loop EXCEPT !.stops = @ + 1]), main_loop.pc)

\* A second thread calls stop() while the main loop runs: it sets the
\* liveness and, in the aea agent, tests whether the mailbox is connected.
StopFromThread ==
    /\ main_loop.pc \in {"setup", "while", "act", "react", "update"}
    /\ main_loop.mailbox # "None"
    /\ main_loop.thread = "idle"
    /\ main_loop' =
           [main_loop EXCEPT
               !._is_stopped = TRUE,
               !.thread = IF main_loop.version = "aea" /\ ~main_loop.is_connected
                          THEN "returned" ELSE "disconnect"]
    /\ UNCHANGED negotiation

\* The second thread makes the call on the mailbox that ends its stop().
DisconnectFromThread ==
    /\ main_loop.thread = "disconnect"
    /\ main_loop' = [MailBox_disconnect(main_loop) EXCEPT !.thread = "returned"]
    /\ UNCHANGED negotiation

\* The steps of the thread of start().
MainThread ==
    \/ Start
    \/ Setup
    \/ While
    \/ Act
    \/ React
    \/ Update
    \/ Teardown
    \/ Exit

NextAgent ==
    \/ Start
    \/ Setup
    \/ While
    \/ Act
    \/ React
    \/ Update
    \/ Teardown
    \/ Exit
    \/ StopFromMethod
    \/ StopFromThread
    \/ DisconnectFromThread

SpecAgent == InitAgent /\ [][NextAgent]_vars

\* Every thread that can take a step eventually takes one.
SpecAgentFair ==
    /\ SpecAgent
    /\ WF_vars(MainThread)
    /\ WF_vars(DisconnectFromThread)

\* ------------------------------------------------------------------ specification of the belief state

\* The proposals that the belief state is updated with: bundles of one good
\* and of two, a bundle that gives a unit back, and bundles that buy nothing.
ObservedProposals ==
    {Proposal(1500, <<2, 0>>), Proposal(1500, <<0, 1>>), Proposal(1000, <<2, 1>>),
     Proposal(50, <<1, -1>>), Proposal(50, <<0, 0>>), Proposal(1500, <<-1, 0>>)}

\* The transactions of those proposals, of the agent with its first opponent.
ObservedTransactions ==
    {Transaction_from_proposal(
         proposal, generate_transaction_id(public_key, opponent_pbk, 1, is_seller),
         ~is_seller, opponent_pbk, public_key) :
        proposal \in ObservedProposals, is_seller \in BOOLEAN}

\* An agent that keeps a belief state, before any observation.
InitBeliefs ==
    /\ \E tx_fee \in NegotiationTxFees : GameAndAgent(NegotiationGame(tx_fee), TRUE)
    /\ NoNetwork
    /\ raised = "none"
    /\ returned = "None"

\* world_state.<name>(transaction), for one of the two updates.
UpdateWorldState(name, transaction) ==
    LET r == WorldState_call(game_instance.world_state,
                             game_instance.game_configuration.good_pbks,
                             name, transaction)
    IN /\ handled < MaxMessages
       /\ handled' = handled + 1
       /\ game_instance' = [game_instance EXCEPT !.world_state = r.world_state]
       /\ raised' = r.raised
       /\ returned' = "None"
       /\ last_call' = [name |-> name, transaction |-> transaction]
       /\ UNCHANGED <<game, heap, lock_manager, last_message, last_dialogue, network>>

\* world_state.update_on_declined_propose(transaction)
UpdateOnDeclinedPropose(transaction) ==
    UpdateWorldState("update_on_declined_propose", transaction)

\* world_state.update_on_initial_accept(transaction)
UpdateOnInitialAccept(transaction) ==
    UpdateWorldState("update_on_initial_accept", transaction)

NextBeliefs ==
    \/ \E transaction \in ObservedTransactions : UpdateOnDeclinedPropose(transaction)
    \/ \E transaction \in ObservedTransactions : UpdateOnInitialAccept(transaction)

SpecBeliefs == InitBeliefs /\ [][NextBeliefs]_vars

\* ------------------------------------------------------------------ properties

Agents == Range(agent_pbks)
GoodIds == DOMAIN good_pbks

\* The ledger: everything of the Game but how the last call ended.
ledger == <<configuration, initialization, heap, initial_agent_states,
            agent_states, good_states, transactions>>

balance(pbk) == agent_states[pbk].balance
holdings(pbk) == heap[agent_states[pbk]._current_holdings]
balance_after(pbk) == agent_states'[pbk].balance
holdings_after(pbk) == heap'[agent_states'[pbk]._current_holdings]

total_balance == SumOver([pbk \in Agents |-> balance(pbk)], Agents)
total_balance_after == SumOver([pbk \in Agents |-> balance_after(pbk)], Agents)

\* C1: settle_transaction on a transaction that is not valid raises and leaves
\* balances, holdings, prices and the log as they were.
\* (Written "effect, or no invalid transaction makes this step", which is
\* "every step of an invalid transaction has the effect".)
C1_InvalidSettleChangesNothing ==
    [][\/ (raised' = "AssertionError" /\ UNCHANGED ledger)
       \/ \A tx \in TxSet :
             ~(~is_transaction_valid(TheGame, tx) /\ SettleTransaction(tx))]_vars

\* C1 witness: an invalid transaction was submitted to a Game that had already
\* settled one.
C1_Witness == raised = "AssertionError" /\ Len(transactions) > 0

\* The validity the ledger is said to compute: the buyer can pay the amount and
\* the half fee, and the seller holds every good bought in a positive quantity.
claimed_valid(tx) ==
    /\ balance(buyer_pbk(tx)) >=
           tx.amount + share_of_tx_fee(configuration.tx_fee)
    /\ \A good_id \in GoodIds :
          tx.quantities_by_good_pbk[good_id] > 0
              => holdings(seller_pbk(tx))[good_id] >=
                     tx.quantities_by_good_pbk[good_id]

\* C2: is_transaction_valid is true exactly when the buyer's balance covers the
\* amount plus the half fee and the seller holds at least the traded quantity
\* of every good with a positive traded quantity.
C2_ValidIffClaimed ==
    \A tx \in TxSet : is_transaction_valid(TheGame, tx) <=> claimed_valid(tx)

\* C3: settling a valid transaction appends it to the log, moves every traded
\* quantity from the seller to the buyer, debits the buyer amount + half fee
\* and credits the seller amount - half fee.
C3_SettleEffects ==
    [][\A tx \in TxSet :
          (is_transaction_valid(TheGame, tx) /\ SettleTransaction(tx))
              => LET share == share_of_tx_fee(configuration.tx_fee)
                     b == buyer_pbk(tx)
                     s == seller_pbk(tx)
                 IN /\ transactions' = Append(transactions, tx)
                    /\ \A good_id \in GoodIds :
                          /\ holdings_after(b)[good_id] =
                                 holdings(b)[good_id] + tx.quantities_by_good_pbk[good_id]
                          /\ holdings_after(s)[good_id] =
                                 holdings(s)[good_id] - tx.quantities_by_good_pbk[good_id]
                    /\ balance_after(b) = balance(b) - (tx.amount + share)
                    /\ balance_after(s) = balance(s) + (tx.amount - share)]_vars

\* The effects of C3 on every settlement that returns (not a claim's formula:
\* it shows that C3 fails on the raising settlements only).
SettleEffectsWhenReturns ==
    [][\/ raised' # "none"
       \/ \A tx \in TxSet :
             (is_transaction_valid(TheGame, tx) /\ SettleTransaction(tx))
                 => LET share == share_of_tx_fee(configuration.tx_fee)
                        b == buyer_pbk(tx)
                        s == seller_pbk(tx)
                    IN /\ transactions' = Append(transactions, tx)
                       /\ \A good_id \in GoodIds :
                             /\ holdings_after(b)[good_id] =
                                    holdings(b)[good_id] + tx.quantities_by_good_pbk[good_id]
                             /\ holdings_after(s)[good_id] =
                                    holdings(s)[good_id] - tx.quantities_by_good_pbk[good_id]
                       /\ balance_after(b) = balance(b) - (tx.amount + share)
                       /\ balance_after(s) = balance(s) + (tx.amount - share)]_vars

\* The worked scenario of the doctest of settle_transaction: fee 1.0, balances
\* 20, the sender buys one unit of the first good for 15.
WorkedScenario ==
    /\ configuration.tx_fee = 100
    /\ initialization.initial_money_amounts = <<2000, 2000, 2000>>
    /\ transactions = <<Transaction("some_tx_id", TRUE, "tac_agent_1_pbk", 1500,
                                     <<1, 0>>, "tac_agent_0_pbk")>>

\* The post-state of the worked scenario: the buyer ends with 4.5 and one more
\* unit, the seller with 34.5 and one unit less.
WorkedScenarioResult ==
    WorkedScenario =>
        /\ balance("tac_agent_0_pbk") = 450
        /\ holdings("tac_agent_0_pbk") = <<2, 1>>
        /\ balance("tac_agent_1_pbk") = 3450
        /\ holdings("tac_agent_1_pbk") = <<1, 1>>

\* C4 as stated: settling a valid transaction lowers the sum of all balances by
\* exactly the transaction fee.
C4_TotalBalanceDropsByFee ==
    [][\A tx \in TxSet :
          (is_transaction_valid(TheGame, tx) /\ SettleTransaction(tx))
              => total_balance_after = total_balance - configuration.tx_fee]_vars

\* C4 amended: a settlement that returns lowers the sum of all balances by twice
\* the rounded half fee (the fee itself only when the fee is an even number of
\* cents), and a settlement that raises leaves every balance as it was.
\* (Written "effect, or no valid transaction makes this step".)
C4_TotalBalanceDropsByTwoShares ==
    [][\/ IF raised' = "none"
          THEN total_balance_after =
                   total_balance - 2 * share_of_tx_fee(configuration.tx_fee)
          ELSE \A pbk \in Agents : balance_after(pbk) = balance(pbk)
       \/ \A tx \in TxSet :
             ~(is_transaction_valid(TheGame, tx) /\ SettleTransaction(tx))]_vars

\* C4 witness: two settlements returned under a fee of an odd number of cents,
\* each taking twice the rounded half fee, which is not the fee.
C4_Witness ==
    /\ raised = "none"
    /\ Len(transactions) = 2
    /\ 2 * share_of_tx_fee(configuration.tx_fee) # configuration.tx_fee
    /\ total_balance = SumSeq(initialization.initial_money_amounts)
                          - 4 * share_of_tx_fee(configuration.tx_fee)

total_holding(good_id) ==
    SumOver([pbk \in Agents |-> holdings(pbk)[good_id]], Agents)

total_endowment(good_id) ==
    SumSeq([i \in DOMAIN initialization.endowments |->
               heap[initialization.endowments[i]][good_id]])

\* C5: for every good, the holdings summed over all agents equal the total
\* initial endowment of the good.
C5_GoodsConserved ==
    \A good_id \in GoodIds : total_holding(good_id) = total_endowment(good_id)

\* C5 witness: two settlements have moved goods between agents.
C5_Witness ==
    /\ Len(transactions) = 2
    /\ \E pbk \in Agents :
          holdings(pbk) # Endowments[IndexOf(agent_pbks, pbk)]

\* C6: no agent's balance is negative.
C6_BalancesNonNegative == \A pbk \in Agents : balance(pbk) >= 0

\* The Game that Game.from_dict builds from the dict of the Game of the state.
Reloaded == Game_from_dict(Game_to_dict(TheGame), heap, "reloaded")

\* C7: replaying the log on a fresh Game of the same configuration and
\* initialization never fails and yields the current agent states and prices.
C7_ReplayReproducesState ==
    /\ Reloaded.raised = "none"
    /\ \A pbk \in Agents :
          AgentState_eq(Reloaded.game.heap, Reloaded.game.agent_states[pbk],
                        heap, agent_states[pbk])
    /\ Reloaded.game.good_states = good_states

\* A transaction whose settlement raises ZeroDivisionError: it buys some good
\* and its quantities sum to 0.
DividesByZero(tx) ==
    /\ nb_instances_traded(tx) = 0
    /\ \E good_id \in GoodIds : tx.quantities_by_good_pbk[good_id] > 0

\* C7 and C8 on the Games whose log holds no such transaction (not a claim's
\* formula: it shows that they fail after a raising settlement only).
ReplayWhenNothingRaised ==
    (\A i \in DOMAIN transactions : ~DividesByZero(transactions[i]))
        => C7_ReplayReproducesState /\ Game_eq(Reloaded.game, TheGame)

\* C8: Game.from_dict(game.to_dict()) equals the Game and has the same log.
C8_DictRoundTrip ==
    /\ Reloaded.raised = "none"
    /\ Game_eq(Reloaded.game, TheGame)
    /\ Reloaded.game.transactions = transactions

\* A Game on which nothing was settled or attempted yet.
NewlyCreated == transactions = <<>> /\ raised = "none"

\* C9: a newly created Game has initial_agent_states equal to agent_states,
\* balances and holdings from the initialization, an empty log and every
\* price at the default.
C9_NewGame ==
    NewlyCreated =>
        /\ \A i \in DOMAIN agent_pbks :
              LET pbk == agent_pbks[i] IN
              /\ AgentState_eq(heap, initial_agent_states[pbk],
                               heap, agent_states[pbk])
              /\ balance(pbk) = initialization.initial_money_amounts[i]
              /\ holdings(pbk) = Endowments[i]
        /\ DOMAIN agent_states = Agents
        /\ \A good_pbk \in Range(good_pbks) :
              good_states[good_pbk].price = DEFAULT_PRICE
        /\ DOMAIN good_states = Range(good_pbks)

\* C9 witness: a new Game whose first agent starts without money.
C9_Witness ==
    NewlyCreated /\ initialization.initial_money_amounts[1] = 0

\* C10: initial_agent_states and the endowments, money amounts and utility
\* parameters of the initialization stay what they were at game creation.
C10_SnapshotFrozen ==
    \A i \in DOMAIN agent_pbks :
        LET pbk == agent_pbks[i] IN
        /\ initial_agent_states[pbk].balance = initialization.initial_money_amounts[i]
        /\ heap[initial_agent_states[pbk]._current_holdings] = Endowments[i]
        /\ initial_agent_states[pbk]._utility_params = UtilityParams[i]
        /\ heap[initialization.endowments[i]] = Endowments[i]
        /\ initialization.utility_params[i] = UtilityParams[i]
        /\ initialization.initial_money_amounts \in InitialMoneyAmounts

\* C10 witness: two settlements have changed the live state of the first
\* agent, in balance and in holdings.
C10_Witness ==
    /\ Len(transactions) = 2
    /\ holdings(agent_pbks[1]) # Endowments[1]
    /\ balance(agent_pbks[1]) # initialization.initial_money_amounts[1]

\* C11: a call of is_transaction_valid leaves balances, holdings, good prices
\* and the transaction log (the whole ledger) as they were, whether it returns
\* true or false.
C11_IsTransactionValidChangesNothing ==
    [][UNCHANGED ledger \/ \A tx \in TxSet : ~IsTransactionValid(tx)]_vars

\* C11 witness: is_transaction_valid returned true on a Game that had settled
\* a transaction.
C11_Witness == returned = "True" /\ Len(transactions) > 0

\* The other outcome: is_transaction_valid returned false on such a Game.
C11_WitnessFalse == returned = "False" /\ Len(transactions) > 0

\* ------------------------------------------------------------------ properties of the negotiation

own_balance == game_instance.agent_state.balance
own_holdings == heap[game_instance.agent_state._current_holdings]
own_utility_params == game_instance.agent_state._utility_params
fee_share == share_of_tx_fee(game_instance.game_configuration.tx_fee)

\* The transaction that a proposal received in the dialogue implies.
implied_transaction(dialogue, proposal) ==
    Transaction(<<public_key, dialogue.dialogue_label[2],
                  dialogue.dialogue_label[1], dialogue.is_seller>>,
                ~dialogue.is_seller, dialogue.dialogue_label[2],
                proposal.price, proposal.quantities, public_key)

\* The last handler returned exactly one message of the performative.
Answered(performative) ==
    /\ raised = "none"
    /\ Len(returned) = 1
    /\ returned[1].performative = performative

\* C12: handling a message changes neither the agent's own AgentState (its
\* balance, its utility parameters, its holdings list) nor the ledger: the
\* profitability test works on copies.
C12_HandlersLeaveAgentStateAndLedger ==
    [][/\ game_instance'.agent_state = game_instance.agent_state
       /\ heap' = heap
       /\ UNCHANGED game]_vars

\* C12 witness: a Propose was declined while a lock was held, so the test
\* applied a lock and the candidate to copies of the agent state.
C12_Witness ==
    /\ last_message.performative = "Propose"
    /\ Answered("Decline")
    /\ DOMAIN lock_manager.locks # {}

\* C13: every message returned by on_cfp, on_propose and on_accept has the
\* msg_id of the triggering message plus 1 and its dialogue_id, and every
\* Propose, Accept and Decline returned has its msg_id as target.
C13_ResponseIds ==
    last_message.performative \in {"CFP", "Propose", "Accept"} =>
        \A i \in DOMAIN returned :
            /\ returned[i].msg_id = last_message.msg_id + 1
            /\ returned[i].dialogue_id = last_message.dialogue_id
            /\ returned[i].performative \in {"Propose", "Accept", "Decline"}
                   => returned[i].target = last_message.msg_id

\* C13 witness: the two-item response to an initial Accept.
C13_Witness ==
    /\ last_message.performative = "Accept"
    /\ Len(returned) = 2
    /\ returned[1].performative = "ByteMessage"
    /\ returned[2].performative = "Accept"

\* The balance and the holdings of the agent with every lock it holds in the
\* role applied: a seller lock adds amount - fee share and takes the
\* quantities, a buyer lock takes amount + fee share and adds the quantities.
locked_balance(is_seller) ==
    IF is_seller
    THEN own_balance
             + SumOver([id \in DOMAIN lock_manager.locks_as_seller |->
                           lock_manager.locks_as_seller[id].amount - fee_share],
                       DOMAIN lock_manager.locks_as_seller)
    ELSE own_balance
             - SumOver([id \in DOMAIN lock_manager.locks_as_buyer |->
                           lock_manager.locks_as_buyer[id].amount + fee_share],
                       DOMAIN lock_manager.locks_as_buyer)

locked_holdings(is_seller) ==
    [good_id \in GoodIds |->
        IF is_seller
        THEN own_holdings[good_id]
                 - SumOver([id \in DOMAIN lock_manager.locks_as_seller |->
                               lock_manager.locks_as_seller[id].quantities_by_good_pbk[good_id]],
                           DOMAIN lock_manager.locks_as_seller)
        ELSE own_holdings[good_id]
                 + SumOver([id \in DOMAIN lock_manager.locks_as_buyer |->
                               lock_manager.locks_as_buyer[id].quantities_by_good_pbk[good_id]],
                           DOMAIN lock_manager.locks_as_buyer)]

\* The locked state covers the candidate: as buyer the locked balance is at
\* least amount + fee share, as seller the locked holding of every good is at
\* least the traded quantity.
covers(tx, is_seller) ==
    IF is_seller
    THEN \A good_id \in GoodIds :
            locked_holdings(is_seller)[good_id] >= tx.quantities_by_good_pbk[good_id]
    ELSE locked_balance(is_seller) >= tx.amount + fee_share

\* The score delta of the candidate from the locked state.
score_delta(tx, is_seller) ==
    LET before == locked_holdings(is_seller)
        after == [good_id \in GoodIds |->
                     IF is_seller
                     THEN before[good_id] - tx.quantities_by_good_pbk[good_id]
                     ELSE before[good_id] + tx.quantities_by_good_pbk[good_id]]
    IN logarithmic_utility(own_utility_params, after)
           - logarithmic_utility(own_utility_params, before)
           + 100 * (IF is_seller THEN tx.amount - fee_share
                                 ELSE -(tx.amount + fee_share))

\* C14: the profitability test is false when the locked state does not cover
\* the candidate, and otherwise true exactly when the score delta of the
\* candidate from the locked state is >= 0.
C14_ProfitableIffCoveredAndGaining ==
    \A dialogue \in Dialogues, proposal \in Proposals :
        LET tx == implied_transaction(dialogue, proposal)
        IN is_profitable_transaction(game_instance, lock_manager, heap, tx,
                                     dialogue).result
               <=> (covers(tx, dialogue.is_seller)
                       /\ score_delta(tx, dialogue.is_seller) >= 0)

\* C14 witness: with a seller lock held, a proposal of score delta zero was
\* accepted in another seller dialogue.
C14_Witness ==
    /\ last_message.performative = "Propose"
    /\ last_message.proposals[1] = Proposal(50, <<0, 0>>)
    /\ last_dialogue.is_seller
    /\ score_delta(implied_transaction(last_dialogue, last_message.proposals[1]),
                   TRUE) = 0
    /\ Answered("Accept")
    /\ Cardinality(DOMAIN lock_manager.locks_as_seller) = 2

\* As seller and against the raw state (no lock applied), the agent holds the
\* quantities of tx and gains from it.
raw_profitable_as_seller(tx) ==
    /\ \A good_id \in GoodIds :
          own_holdings[good_id] >= tx.quantities_by_good_pbk[good_id]
    /\ logarithmic_utility(own_utility_params,
                           [good_id \in GoodIds |->
                               own_holdings[good_id] - tx.quantities_by_good_pbk[good_id]])
           - logarithmic_utility(own_utility_params, own_holdings)
           + 100 * (tx.amount - fee_share) >= 0

\* The quantities of the two transactions jointly exceed the holdings.
jointly_exceed(tx1, tx2) ==
    \E good_id \in GoodIds :
        tx1.quantities_by_good_pbk[good_id] + tx2.quantities_by_good_pbk[good_id]
            > own_holdings[good_id]

\* The candidate of the message handled in the step, if it has one: the
\* transaction implied by a Propose, or the pending proposal that an initial
\* Accept targets.
has_candidate_of_step ==
    \/ last_message'.performative = "Propose"
    \/ /\ last_message'.performative = "Accept"
       /\ <<last_dialogue'.dialogue_label, last_message'.target>>
              \in DOMAIN lock_manager.pending_tx_proposals
       /\ <<last_dialogue'.dialogue_label, last_message'.target>>
              \notin DOMAIN lock_manager.pending_tx_acceptances

candidate_of_step ==
    IF last_message'.performative = "Propose"
    THEN implied_transaction(last_dialogue', last_message'.proposals[1])
    ELSE lock_manager.pending_tx_proposals[
             <<last_dialogue'.dialogue_label, last_message'.target>>]

\* C15: two seller dialogues of the agent, each profitable against the raw
\* state, whose quantities jointly exceed the holdings: once the lock of the
\* first is held (and no other lock as seller), the proposal or the accept of
\* the second is answered with a Decline, and no lock is added.
C15_SecondDialogueDeclined ==
    [][(/\ has_candidate_of_step
        /\ last_dialogue'.is_seller
        /\ \E id \in DOMAIN lock_manager.locks_as_seller :
              /\ DOMAIN lock_manager.locks_as_seller = {id}
              /\ id[3] # last_dialogue'.dialogue_label[1]
              /\ raw_profitable_as_seller(lock_manager.locks_as_seller[id])
              /\ raw_profitable_as_seller(candidate_of_step)
              /\ jointly_exceed(lock_manager.locks_as_seller[id], candidate_of_step))
           => /\ raised' = "none"
              /\ Len(returned') = 1
              /\ returned'[1].performative = "Decline"
              /\ lock_manager'.locks = lock_manager.locks]_vars

\* C15 witness: the lock of one seller dialogue is held, and a proposal of the
\* other seller dialogue, for 2 units of the 3 held as the lock, was declined.
C15_Witness ==
    /\ last_message.performative = "Propose"
    /\ last_dialogue.is_seller
    /\ Answered("Decline")
    /\ \E id \in DOMAIN lock_manager.locks_as_seller :
          /\ DOMAIN lock_manager.locks_as_seller = {id}
          /\ id[3] # last_dialogue.dialogue_label[1]
          /\ raw_profitable_as_seller(lock_manager.locks_as_seller[id])
          /\ raw_profitable_as_seller(
                 implied_transaction(last_dialogue, last_message.proposals[1]))
          /\ jointly_exceed(lock_manager.locks_as_seller[id],
                            implied_transaction(last_dialogue, last_message.proposals[1]))
          /\ lock_manager.locks_as_seller[id].quantities_by_good_pbk = <<2, 0>>
          /\ last_message.proposals[1].quantities = <<2, 0>>

\* The same on an Accept: the pending proposal of the second seller dialogue
\* was accepted by the opponent after the lock of the first was taken, and
\* the agent declined.
C15_WitnessAccept ==
    /\ last_message.performative = "Accept"
    /\ last_dialogue.is_seller
    /\ Answered("Decline")
    /\ \E id \in DOMAIN lock_manager.locks_as_seller :
          /\ id[3] # last_dialogue.dialogue_label[1]
          /\ lock_manager.locks_as_seller[id].quantities_by_good_pbk = <<2, 0>>

\* C16: the locks held are jointly feasible: for every good the quantities of
\* the seller locks sum to at most the holding, and the amounts plus fee
\* shares of the buyer locks sum to at most the balance.
C16_LocksJointlyFeasible ==
    /\ \A good_id \in GoodIds :
          SumOver([id \in DOMAIN lock_manager.locks_as_seller |->
                      lock_manager.locks_as_seller[id].quantities_by_good_pbk[good_id]],
                  DOMAIN lock_manager.locks_as_seller)
              <= own_holdings[good_id]
    /\ SumOver([id \in DOMAIN lock_manager.locks_as_buyer |->
                   lock_manager.locks_as_buyer[id].amount + fee_share],
               DOMAIN lock_manager.locks_as_buyer)
           <= own_balance

\* The locks are jointly feasible as long as no Decline was handled (not a
\* claim's formula: it shows that C16 fails on the release of a lock only).
LocksFeasibleUntilDecline ==
    [][(C16_LocksJointlyFeasible /\ last_message'.performative # "Decline")
          => C16_LocksJointlyFeasible']_vars

\* The lock manager with one more lock, of tx in the role.
with_lock(lm, tx, as_seller) ==
    [lm EXCEPT !.locks = (tx.transaction_id :> tx) @@ @,
               !.locks_as_seller =
                   IF as_seller THEN (tx.transaction_id :> tx) @@ @ ELSE @,
               !.locks_as_buyer =
                   IF as_seller THEN @ ELSE (tx.transaction_id :> tx) @@ @]

\* What the claims say a Propose does when the implied transaction tx is
\* profitable: one lock under the id of tx, one pending acceptance under the
\* dialogue and msg_id + 1, and an Accept.
ProposeAccepted(tx) ==
    /\ raised' = "none"
    /\ Len(returned') = 1
    /\ returned'[1].performative = "Accept"
    /\ lock_manager' =
           [with_lock(lock_manager, tx, last_dialogue'.is_seller)
               EXCEPT !.pending_tx_acceptances =
                   (<<last_dialogue'.dialogue_label, last_message'.msg_id + 1>> :> tx) @@ @]
    /\ Cardinality(DOMAIN lock_manager'.locks)
           = Cardinality(DOMAIN lock_manager.locks) + 1

\* ... and when it is not: a Decline, and the locks, the pending proposals
\* and the pending acceptances as they were.
ProposeDeclined ==
    /\ raised' = "none"
    /\ Len(returned') = 1
    /\ returned'[1].performative = "Decline"
    /\ lock_manager' = lock_manager

\* C17 as stated: on a Propose, if the implied transaction is profitable the
\* handler records exactly one lock under the transaction id and exactly one
\* pending acceptance under (dialogue, msg_id + 1) and returns Accept;
\* otherwise it returns Decline and leaves the lock manager unchanged.
C17_ProposeLocksOrDeclines ==
    [][last_message'.performative = "Propose" =>
          LET tx == implied_transaction(last_dialogue', last_message'.proposals[1])
          IN IF covers(tx, last_dialogue'.is_seller)
                    /\ score_delta(tx, last_dialogue'.is_seller) >= 0
             THEN ProposeAccepted(tx)
             ELSE ProposeDeclined]_vars

\* C17 amended: the same when no lock with the id of the implied transaction
\* is held; when one is held and the transaction is profitable, add_lock
\* fails, no message is returned and the lock manager is unchanged.
C17_ProposeLocksOrDeclinesUnlessLocked ==
    [][last_message'.performative = "Propose" =>
          LET tx == implied_transaction(last_dialogue', last_message'.proposals[1])
          IN IF covers(tx, last_dialogue'.is_seller)
                    /\ score_delta(tx, last_dialogue'.is_seller) >= 0
             THEN IF tx.transaction_id \in DOMAIN lock_manager.locks
                  THEN /\ raised' = "DuplicateLockError"
                       /\ returned' = <<>>
                       /\ lock_manager' = lock_manager
                  ELSE ProposeAccepted(tx)
             ELSE ProposeDeclined]_vars

\* C17 witness: a Propose was accepted while the lock of another dialogue was
\* held: its lock and its pending acceptance are recorded.
C17_Witness ==
    /\ last_message.performative = "Propose"
    /\ Answered("Accept")
    /\ Cardinality(DOMAIN lock_manager.locks) = 2
    /\ <<last_dialogue.dialogue_label, returned[1].msg_id>>
           \in DOMAIN lock_manager.pending_tx_acceptances
    /\ <<public_key, last_dialogue.dialogue_label[2], last_dialogue.dialogue_label[1],
         last_dialogue.is_seller>> \in DOMAIN lock_manager.locks

\* The other case of the amendment: a second profitable Propose of a dialogue
\* whose lock is held failed.
C17_WitnessLocked ==
    /\ last_message.performative = "Propose"
    /\ raised = "DuplicateLockError"

\* The step handles an Accept in the initial case: its target matches a
\* pending proposal of the dialogue and no pending acceptance.
InitialAcceptStep ==
    /\ last_message'.performative = "Accept"
    /\ <<last_dialogue'.dialogue_label, last_message'.target>>
           \in DOMAIN lock_manager.pending_tx_proposals
    /\ <<last_dialogue'.dialogue_label, last_message'.target>>
           \notin DOMAIN lock_manager.pending_tx_acceptances

\* The step handles an Accept in the match case.
MatchAcceptStep ==
    /\ last_message'.performative = "Accept"
    /\ <<last_dialogue'.dialogue_label, last_message'.target>>
           \in DOMAIN lock_manager.pending_tx_acceptances

\* The message that carries the serialized transaction to the controller.
settlement_message(tx) ==
    [performative |-> "ByteMessage", msg_id |-> last_message'.msg_id + 1,
     dialogue_id |-> last_message'.dialogue_id, destination |-> controller_pbk,
     content |-> Transaction_to_dict(tx)]

\* The belief state with an accepted observation of tx: the price per unit
\* bought, in the model of every good bought.
accepted_observation(ws, tx) ==
    WorldState_call(ws, good_pbks, "update_on_initial_accept", tx).world_state

\* C18: an initial Accept whose transaction is still profitable against the
\* locked state removes the pending proposal, adds a lock for the
\* transaction, feeds an accepted observation to the belief state when the
\* agent keeps one, and returns two items: the settlement message for the
\* controller and an Accept for the counterparty.
C18_InitialAcceptSettles ==
    [][InitialAcceptStep =>
          LET key == <<last_dialogue'.dialogue_label, last_message'.target>>
              tx == lock_manager.pending_tx_proposals[key]
          IN (covers(tx, last_dialogue'.is_seller)
                 /\ score_delta(tx, last_dialogue'.is_seller) >= 0)
             => /\ raised' = "none"
                /\ lock_manager' =
                       [with_lock(lock_manager, tx, last_dialogue'.is_seller)
                           EXCEPT !.pending_tx_proposals =
                               [k \in DOMAIN @ \ {key} |-> @[k]]]
                /\ game_instance'.world_state =
                       IF game_instance.is_world_modeling
                       THEN accepted_observation(game_instance.world_state, tx)
                       ELSE game_instance.world_state
                /\ returned' =
                       <<settlement_message(tx),
                         [performative |-> "Accept",
                          msg_id |-> last_message'.msg_id + 1,
                          dialogue_id |-> last_message'.dialogue_id,
                          destination |-> last_message'.destination,
                          target |-> last_message'.msg_id]>>]_vars

\* C18 on the agents that keep no belief state, when no lock of the dialogue
\* is held (not a claim's formula: it shows where C18 fails).
InitialAcceptSettlesWithoutBeliefs ==
    [][(InitialAcceptStep /\ ~game_instance.is_world_modeling) =>
          LET key == <<last_dialogue'.dialogue_label, last_message'.target>>
              tx == lock_manager.pending_tx_proposals[key]
          IN (/\ covers(tx, last_dialogue'.is_seller)
              /\ score_delta(tx, last_dialogue'.is_seller) >= 0
              /\ tx.transaction_id \notin DOMAIN lock_manager.locks)
             => /\ raised' = "none"
                /\ lock_manager' =
                       [with_lock(lock_manager, tx, last_dialogue'.is_seller)
                           EXCEPT !.pending_tx_proposals =
                               [k \in DOMAIN @ \ {key} |-> @[k]]]
                /\ Len(returned') = 2
                /\ returned'[1] = settlement_message(tx)
                /\ returned'[2].performative = "Accept"]_vars

\* An agent that keeps a belief state got an initial Accept for a profitable
\* transaction: the call of world_state.update_on_accept failed.
InitialAcceptFailed ==
    /\ last_message.performative = "Accept"
    /\ raised = "AttributeError"
    /\ game_instance.is_world_modeling

\* C19: an initial Accept whose transaction is no longer profitable against
\* the locked state is answered with a single Decline; no lock is added, no
\* settlement message is produced, the belief state is not updated, and the
\* pending proposal is no longer pending.
C19_InitialAcceptDeclines ==
    [][InitialAcceptStep =>
          LET key == <<last_dialogue'.dialogue_label, last_message'.target>>
              tx == lock_manager.pending_tx_proposals[key]
          IN ~(covers(tx, last_dialogue'.is_seller)
                  /\ score_delta(tx, last_dialogue'.is_seller) >= 0)
             => /\ raised' = "none"
                /\ returned' =
                       <<[performative |-> "Decline",
                          msg_id |-> last_message'.msg_id + 1,
                          dialogue_id |-> last_message'.dialogue_id,
                          destination |-> last_message'.destination,
                          target |-> last_message'.msg_id]>>
                /\ lock_manager'.locks = lock_manager.locks
                /\ lock_manager'.locks_as_seller = lock_manager.locks_as_seller
                /\ lock_manager'.locks_as_buyer = lock_manager.locks_as_buyer
                /\ game_instance'.world_state = game_instance.world_state
                /\ key \notin DOMAIN lock_manager'.pending_tx_proposals
                /\ lock_manager'.pending_tx_acceptances
                       = lock_manager.pending_tx_acceptances]_vars

\* C19 witness: an Accept was answered with a Decline (only the initial case
\* declines), by an agent that keeps a belief state and holds a lock; the
\* proposal it targeted is no longer pending.
C19_Witness ==
    /\ last_message.performative = "Accept"
    /\ Answered("Decline")
    /\ game_instance.is_world_modeling
    /\ DOMAIN lock_manager.locks # {}
    /\ <<last_dialogue.dialogue_label, last_message.target>>
           \notin DOMAIN lock_manager.pending_tx_proposals

\* C20: an Accept in the match case removes the pending acceptance it
\* targets and returns exactly one message, the settlement message for the
\* controller with that transaction; no Accept or Decline is sent, and the
\* locks are unchanged.
C20_MatchAcceptSettles ==
    [][MatchAcceptStep =>
          LET key == <<last_dialogue'.dialogue_label, last_message'.target>>
              tx == lock_manager.pending_tx_acceptances[key]
          IN /\ raised' = "none"
             /\ returned' = <<settlement_message(tx)>>
             /\ lock_manager' =
                    [lock_manager EXCEPT !.pending_tx_acceptances =
                        [k \in DOMAIN @ \ {key} |-> @[k]]]
             /\ tx.transaction_id \in DOMAIN lock_manager.locks
                    => tx.transaction_id \in DOMAIN lock_manager'.locks]_vars

\* C20 witness: a matching Accept was answered with the settlement message
\* alone, and the lock taken when the Propose was accepted is still held.
C20_Witness ==
    /\ last_message.performative = "Accept"
    /\ raised = "none"
    /\ Len(returned) = 1
    /\ returned[1].performative = "ByteMessage"
    /\ returned[1].destination = controller_pbk
    /\ returned[1].content[1] \in DOMAIN lock_manager.locks
    /\ <<last_dialogue.dialogue_label, last_message.target>>
           \notin DOMAIN lock_manager.pending_tx_acceptances

\* The step handles an Accept whose target matches no pending acceptance and
\* no pending proposal of its dialogue.
UnmatchedAcceptStep ==
    /\ last_message'.performative = "Accept"
    /\ <<last_dialogue'.dialogue_label, last_message'.target>>
           \notin DOMAIN lock_manager.pending_tx_proposals
    /\ <<last_dialogue'.dialogue_label, last_message'.target>>
           \notin DOMAIN lock_manager.pending_tx_acceptances

\* C21: an Accept matching neither a pending acceptance nor a pending
\* proposal of its dialogue is dropped as a protocol violation: no message is
\* returned, the locks, the pending proposals, the pending acceptances and the
\* belief state are unchanged, and the agent goes on handling messages.
C21_UnmatchedAcceptDropped ==
    [][UnmatchedAcceptStep =>
          /\ raised' = "ProtocolError"
          /\ returned' = <<>>
          /\ lock_manager' = lock_manager
          /\ game_instance' = game_instance
          /\ heap' = heap
          /\ handled' = handled + 1]_vars

\* C21 witness: an Accept was dropped by an agent that holds a lock and has a
\* pending proposal and a pending acceptance in other entries.
C21_Witness ==
    /\ last_message.performative = "Accept"
    /\ raised = "ProtocolError"
    /\ returned = <<>>
    /\ DOMAIN lock_manager.locks # {}
    /\ DOMAIN lock_manager.pending_tx_acceptances # {}

\* After a dropped Accept the handlers answer as before: no later message is
\* dropped unless it is itself an Accept that matches nothing.
HandlingContinuesAfterDrop ==
    [][(raised = "ProtocolError" /\ raised' = "ProtocolError") => UnmatchedAcceptStep]_vars

\* No Propose handled right after a dropped Accept is accepted (violated: the
\* dialogue of the dropped Accept goes on).
NoAcceptAfterDrop ==
    [][~(/\ raised = "ProtocolError"
         /\ last_message'.performative = "Propose"
         /\ last_dialogue' = last_dialogue
         /\ Len(returned') = 1
         /\ returned'[1].performative = "Accept")]_vars

\* The step handles a Decline.
DeclineStep == last_message'.performative = "Decline"

\* The transaction id derived from (own identity, counterparty, dialogue id,
\* role) for the dialogue of the message the step handles.
derived_id ==
    <<public_key, last_dialogue'.dialogue_label[2], last_dialogue'.dialogue_label[1],
      last_dialogue'.is_seller>>

\* The map without the key, when it has it.
without(d, k) == [x \in DOMAIN d \ {k} |-> d[x]]

\* The locks of the step's post-state are those of its pre-state without the
\* lock of the derived id.
LockReleased ==
    /\ lock_manager'.locks = without(lock_manager.locks, derived_id)
    /\ lock_manager'.locks_as_seller = without(lock_manager.locks_as_seller, derived_id)
    /\ lock_manager'.locks_as_buyer = without(lock_manager.locks_as_buyer, derived_id)

\* C22: on a Decline the handler releases the lock of the derived transaction
\* id if it is held and leaves the locks alone if it is not, returns no
\* message, and leaves the locks of every other dialogue unchanged.
C22_DeclineReleasesLock ==
    [][DeclineStep =>
          /\ raised' = "none"
          /\ returned' = <<>>
          /\ LockReleased]_vars

\* C22 for the Declines that do not reach the belief-state update (not a
\* claim's formula: it shows where C22 fails).
DeclineReleasesLockWithoutUpdate ==
    [][(/\ DeclineStep
        /\ ~(/\ game_instance.is_world_modeling
             /\ <<last_dialogue'.dialogue_label, last_message'.target>>
                    \in DOMAIN lock_manager.pending_tx_proposals))
       => /\ raised' = "none"
          /\ returned' = <<>>
          /\ LockReleased]_vars

\* The lock taken when a Propose was accepted was released by the Decline
\* that answered the Accept, while the lock of another dialogue stayed.
DeclineReleasedLock ==
    /\ last_message.performative = "Decline"
    /\ raised = "none"
    /\ <<last_dialogue.dialogue_label, last_message.target>>
           \in DOMAIN lock_manager.pending_tx_acceptances
    /\ <<public_key, last_dialogue.dialogue_label[2], last_dialogue.dialogue_label[1],
         last_dialogue.is_seller>> \notin DOMAIN lock_manager.locks
    /\ DOMAIN lock_manager.locks # {}

\* C23: after a Decline has been handled for a dialogue the agent holds no
\* lock and no pending entry for it: the pending proposal the Decline targets
\* and every pending acceptance of the dialogue are gone, with or without a
\* belief state.
C23_DeclineCleansUp ==
    [][DeclineStep =>
          /\ derived_id \notin DOMAIN lock_manager'.locks
          /\ <<last_dialogue'.dialogue_label, last_message'.target>>
                 \notin DOMAIN lock_manager'.pending_tx_proposals
          /\ \A key \in DOMAIN lock_manager'.pending_tx_acceptances :
                 key[1] # last_dialogue'.dialogue_label]_vars

\* C23 without a belief state: the targeted pending proposal survives the
\* Decline (not a claim's formula: the first way C23 fails).
DeclineKeepsPendingProposal ==
    /\ last_message.performative = "Decline"
    /\ raised = "none"
    /\ ~game_instance.is_world_modeling
    /\ <<last_dialogue.dialogue_label, last_message.target>>
           \in DOMAIN lock_manager.pending_tx_proposals

\* The step handles a Decline whose target is a pending proposal of the
\* dialogue, by an agent that keeps a belief state.
ModelledDeclineStep ==
    /\ DeclineStep
    /\ game_instance.is_world_modeling
    /\ <<last_dialogue'.dialogue_label, last_message'.target>>
           \in DOMAIN lock_manager.pending_tx_proposals

\* The belief state with a rejected observation of tx.
rejected_observation(ws, tx) ==
    WorldState_call(ws, good_pbks, "update_on_declined_propose", tx).world_state

\* C24: on a Decline received by an agent that keeps a belief state and has
\* a pending proposal matching the target, the pending proposal is removed,
\* its transaction is fed to the price update as a rejected observation, and
\* the lock of the dialogue's transaction id is released in the same call.
C24_DeclineUpdatesBeliefsThenReleases ==
    [][ModelledDeclineStep =>
          LET key == <<last_dialogue'.dialogue_label, last_message'.target>>
              tx == lock_manager.pending_tx_proposals[key]
          IN /\ raised' = "none"
             /\ lock_manager'.pending_tx_proposals
                    = without(lock_manager.pending_tx_proposals, key)
             /\ game_instance'.world_state
                    = rejected_observation(game_instance.world_state, tx)
             /\ LockReleased]_vars

\* What the handler does in that case: the call of
\* world_state.update_on_decline fails after the pending proposal was popped,
\* and the locks are what they were.
ModelledDeclineFails ==
    [][ModelledDeclineStep =>
          LET key == <<last_dialogue'.dialogue_label, last_message'.target>>
          IN /\ raised' = "AttributeError"
             /\ returned' = <<>>
             /\ lock_manager' =
                    [lock_manager EXCEPT !.pending_tx_proposals = without(@, key)]
             /\ game_instance' = game_instance]_vars

\* Such a Decline failed while the lock of its dialogue was held.
ModelledDeclineKeptLock ==
    /\ last_message.performative = "Decline"
    /\ raised = "AttributeError"
    /\ <<public_key, last_dialogue.dialogue_label[2], last_dialogue.dialogue_label[1],
         last_dialogue.is_seller>> \in DOMAIN lock_manager.locks

\* The step handles a CFP.
CFPStep == last_message'.performative = "CFP"

\* The bundles of the agent that satisfy the query of the CFP.
feasible_proposals ==
    get_proposals(UNION OwnProposalSets, last_message'.query, last_dialogue'.is_seller)

\* The response to a CFP whose query the service description satisfies: a
\* Propose with one feasible proposal, registered as pending under the
\* dialogue and msg_id + 1, and nothing else changed.
CFPProposed ==
    /\ raised' = "none"
    /\ Len(returned') = 1
    /\ returned'[1].performative = "Propose"
    /\ Len(returned'[1].proposals) = 1
    /\ returned'[1].proposals[1] \in feasible_proposals
    /\ lock_manager' =
           [lock_manager EXCEPT !.pending_tx_proposals =
               (<<last_dialogue'.dialogue_label, last_message'.msg_id + 1>>
                   :> implied_transaction(last_dialogue', returned'[1].proposals[1])) @@ @]

\* The response to a CFP whose query the service description does not
\* satisfy: a Decline, and no pending proposal registered.
CFPDeclined ==
    /\ raised' = "none"
    /\ Len(returned') = 1
    /\ returned'[1].performative = "Decline"
    /\ lock_manager' = lock_manager

\* C26: on a CFP, if the service description does not satisfy the query the
\* response is a Decline and no pending proposal is registered; otherwise it
\* is a Propose with exactly one proposal of the feasible set, registered as
\* pending under (dialogue, msg_id + 1); no Propose carries a bundle outside
\* the feasible set, also when that set is empty.
C26_CFPProposesFeasibleOrDeclines ==
    [][CFPStep =>
          IF query_check(last_message'.query,
                         get_service_description(game_instance, heap,
                                                 last_dialogue'.is_seller))
          THEN CFPProposed
          ELSE CFPDeclined]_vars

\* What holds of every CFP: the two cases of C26, and a third in which the
\* handler fails and nothing is returned or registered (not a claim's formula).
CFPProposesDeclinesOrFails ==
    [][CFPStep =>
          IF query_check(last_message'.query,
                         get_service_description(game_instance, heap,
                                                 last_dialogue'.is_seller))
          THEN \/ CFPProposed
               \/ /\ raised' = "IndexError"
                  /\ returned' = <<>>
                  /\ lock_manager' = lock_manager
          ELSE CFPDeclined]_vars

\* A CFP was answered with a Propose; a CFP was answered with a Decline.
CFPAnsweredPropose == last_message.performative = "CFP" /\ Answered("Propose")
CFPAnsweredDecline == last_message.performative = "CFP" /\ Answered("Decline")

\* A CFP whose query the description satisfied found no feasible proposal.
CFPFailed == last_message.performative = "CFP" /\ raised = "IndexError"

\* Every lock is filed under its transaction's id, in the map of all locks
\* and in exactly one of the maps by role.
OneLockPerId ==
    /\ \A id \in DOMAIN lock_manager.locks :
          lock_manager.locks[id].transaction_id = id
    /\ DOMAIN lock_manager.locks_as_seller \cap DOMAIN lock_manager.locks_as_buyer = {}
    /\ DOMAIN lock_manager.locks_as_seller \cup DOMAIN lock_manager.locks_as_buyer
           = DOMAIN lock_manager.locks
    /\ \A id \in DOMAIN lock_manager.locks_as_seller :
          lock_manager.locks_as_seller[id] = lock_manager.locks[id]
    /\ \A id \in DOMAIN lock_manager.locks_as_buyer :
          lock_manager.locks_as_buyer[id] = lock_manager.locks[id]

\* The step handles a Propose whose implied transaction is profitable while
\* a lock with its id is held.
SecondProposeStep ==
    /\ last_message'.performative = "Propose"
    /\ derived_id \in DOMAIN lock_manager.locks
    /\ LET tx == implied_transaction(last_dialogue', last_message'.proposals[1])
       IN /\ covers(tx, last_dialogue'.is_seller)
          /\ score_delta(tx, last_dialogue'.is_seller) >= 0

\* C27: adding a lock under an id already held fails with DuplicateLockError,
\* surfaced to the caller of the handler, and leaves the lock held as it was;
\* there is at most one lock per transaction id, and a second profitable
\* Propose in a dialogue creates no second lock for it.
C27_DuplicateLockRefused ==
    [][/\ OneLockPerId'
       /\ SecondProposeStep =>
             /\ raised' = "DuplicateLockError"
             /\ returned' = <<>>
             /\ lock_manager'.locks = lock_manager.locks
             /\ lock_manager'.locks_as_seller = lock_manager.locks_as_seller
             /\ lock_manager'.locks_as_buyer = lock_manager.locks_as_buyer
       /\ raised' = "DuplicateLockError" =>
             /\ derived_id \in DOMAIN lock_manager.locks
             /\ lock_manager'.locks = lock_manager.locks]_vars

\* C27 witness: a second profitable Propose of a dialogue failed on the lock
\* of the first, which is the one lock held.
C27_Witness ==
    /\ last_message.performative = "Propose"
    /\ raised = "DuplicateLockError"
    /\ returned = <<>>
    /\ DOMAIN lock_manager.locks =
           {<<public_key, last_dialogue.dialogue_label[2],
              last_dialogue.dialogue_label[1], last_dialogue.is_seller>>}

\* The same failure on an initial Accept: the lock of the dialogue was taken
\* on a Propose before.
DuplicateLockOnAccept ==
    /\ last_message.performative = "Accept"
    /\ raised = "DuplicateLockError"

\* ------------------------------------------------------------------ properties of the construction

\* The values of the dict are pairwise distinct.
pairwise_distinct_names(d) ==
    \A i, j \in DOMAIN d : i # j => d[i][2] # d[j][2]

\* The conditions of a configuration: at least 2 agents and 2 goods, a fee
\* that is not negative, as many agent keys as agents and good keys as goods,
\* agent names and good names each pairwise distinct.
ConfigurationConsistent(call) ==
    /\ call.nb_agents >= 2
    /\ call.nb_goods >= 2
    /\ call.tx_fee >= 0
    /\ Len(call.agent_pbk_to_name) = call.nb_agents
    /\ Len(call.good_pbk_to_name) = call.nb_goods
    /\ pairwise_distinct_names(call.agent_pbk_to_name)
    /\ pairwise_distinct_names(call.good_pbk_to_name)

\* C28: constructing a GameConfiguration fails unless there are at least 2
\* agents and 2 goods, the fee is not negative, the numbers of agent keys and
\* of good keys are nb_agents and nb_goods, and the agent names and the good
\* names are each pairwise distinct; generate_game creates no Game from a
\* configuration that is rejected.
C28_ConfigurationChecked ==
    [][/\ last_call'.name = "GameConfiguration" =>
             IF ConfigurationConsistent(last_call')
             THEN raised' = "none"
             ELSE raised' = "AssertionError"
       /\ (last_call'.name = "generate_game" /\ ~ConfigurationConsistent(last_call')) =>
             /\ raised' = "AssertionError"
             /\ returned' = "None"
             /\ UNCHANGED ledger]_vars

\* C28 witness: generate_game was called with two agents of the same name
\* and arguments otherwise consistent; it failed and there is no Game.
C28_Witness ==
    /\ last_call.name = "generate_game"
    /\ raised = "AssertionError"
    /\ last_call.nb_agents = 2
    /\ Len(last_call.agent_pbk_to_name) = 2
    /\ ~pairwise_distinct_names(last_call.agent_pbk_to_name)
    /\ last_call.nb_goods = 2
    /\ Len(last_call.good_pbk_to_name) = 2
    /\ pairwise_distinct_names(last_call.good_pbk_to_name)
    /\ last_call.tx_fee >= 0
    /\ DOMAIN agent_states = {}

\* A configuration was accepted; a Game was generated.
ConfigurationAccepted == last_call.name = "GameConfiguration" /\ raised = "none"
GameGenerated == last_call.name = "generate_game" /\ DOMAIN agent_states # {}

\* The number of goods of the endowments.
good_count(call) == Len(call.endowments[1])

\* The conditions of an initialization: money not negative, endowments and
\* utility weights positive, the endowment and utility matrices of the same
\* agent and good dimensions, the equilibrium prices and holdings of the good
\* count and agent count of the endowments.
InitializationConsistent(call) ==
    /\ \A i \in DOMAIN call.initial_money_amounts : call.initial_money_amounts[i] >= 0
    /\ all_positive(call.endowments)
    /\ all_positive(call.utility_params)
    /\ Len(call.endowments) = Len(call.utility_params)
    /\ \A i \in DOMAIN call.endowments :
          Len(call.endowments[i]) = Len(call.utility_params[i])
    /\ Len(call.eq_prices) = good_count(call)
    /\ Len(call.eq_good_holdings) = Len(call.endowments)
    /\ \A i \in DOMAIN call.eq_good_holdings :
          Len(call.eq_good_holdings[i]) = good_count(call)

\* C29: constructing a GameInitialization fails unless the money amounts are
\* >= 0, the endowments and utility weights > 0, the endowment and utility
\* matrices have the same agent and good dimensions, and the equilibrium
\* prices and holdings have the good count and agent count of the endowments.
C29_InitializationChecked ==
    [][(last_call'.name = "GameInitialization" /\ ~InitializationConsistent(last_call'))
          => raised' # "none"]_vars

\* What the constructor compares the equilibrium with: itself. The prices
\* are as many as the first row of the equilibrium holdings has goods, and
\* the equilibrium holdings have as many rows as the equilibrium money.
EquilibriumOnlySelfConsistent(call) ==
    /\ call.eq_good_holdings # <<>>
    /\ Len(call.eq_prices) = Len(call.eq_good_holdings[1])
    /\ Len(call.eq_good_holdings) = Len(call.eq_money_holdings)

\* The constructor succeeds exactly on the money, endowment and utility
\* conditions of C29, the money amounts being as many as the agents, and the
\* equilibrium consistent with itself (not a claim's formula).
InitializationCheckedAsCoded ==
    [][last_call'.name = "GameInitialization" =>
          (raised' = "none" <=>
              /\ \A i \in DOMAIN last_call'.initial_money_amounts :
                    last_call'.initial_money_amounts[i] >= 0
              /\ all_positive(last_call'.endowments)
              /\ all_positive(last_call'.utility_params)
              /\ Len(last_call'.endowments) = Len(last_call'.initial_money_amounts)
              /\ Len(last_call'.endowments) = Len(last_call'.utility_params)
              /\ \A i \in DOMAIN last_call'.endowments :
                    Len(last_call'.endowments[i]) = Len(last_call'.utility_params[i])
              /\ EquilibriumOnlySelfConsistent(last_call'))]_vars

\* An initialization of 2 agents and 2 goods was constructed with the
\* equilibrium of 3 agents and 3 goods.
InitializationWithForeignEquilibrium ==
    /\ last_call.name = "GameInitialization"
    /\ raised = "none"
    /\ Len(last_call.endowments) = 2
    /\ Len(last_call.eq_good_holdings) = 3
    /\ Len(last_call.eq_prices) = 3

\* ------------------------------------------------------------------ properties of the recorded prices

\* The sum of the positive quantities of a transaction.
positive_instances_traded(tx) ==
    SumSeq([good_id \in DOMAIN tx.quantities_by_good_pbk |->
               IF tx.quantities_by_good_pbk[good_id] > 0
               THEN tx.quantities_by_good_pbk[good_id] ELSE 0])

\* C30: when a valid transaction is settled, the price of every good with a
\* positive traded quantity is set to the amount divided by the sum of the
\* positive traded quantities, and the computation does not fail.
C30_SettledPrices ==
    [][\A tx \in TxSet :
          (is_transaction_valid(TheGame, tx) /\ SettleTransaction(tx))
              => /\ raised' = "none"
                 /\ \A good_id \in GoodIds :
                       tx.quantities_by_good_pbk[good_id] > 0
                           => good_states'[good_pbks[good_id]].price =
                                  Quotient(tx.amount, positive_instances_traded(tx))]_vars

\* The prices of C30 on the valid transactions that sell no good back (not a
\* claim's formula: on these the divisor of the code is the sum of the
\* positive quantities, and the settlement never fails).
SettledPricesWithoutNegativeQuantity ==
    [][\A tx \in TxSet :
          (/\ is_transaction_valid(TheGame, tx)
           /\ \A good_id \in GoodIds : tx.quantities_by_good_pbk[good_id] >= 0
           /\ SettleTransaction(tx))
              => /\ raised' = "none"
                 /\ \A good_id \in GoodIds :
                       tx.quantities_by_good_pbk[good_id] > 0
                           => good_states'[good_pbks[good_id]].price =
                                  Quotient(tx.amount, positive_instances_traded(tx))]_vars

\* A settlement of a valid transaction sets the price of no good that the
\* transaction does not buy and fails only by dividing by zero (not a claim's
\* formula).
SettledPricesAsCoded ==
    [][\A tx \in TxSet :
          (is_transaction_valid(TheGame, tx) /\ SettleTransaction(tx))
              => /\ raised' = (IF DividesByZero(tx) THEN "ZeroDivisionError" ELSE "none")
                 /\ \A good_id \in GoodIds :
                       tx.quantities_by_good_pbk[good_id] <= 0
                           => good_states'[good_pbks[good_id]].price =
                                  good_states[good_pbks[good_id]].price]_vars

\* A valid transaction was settled, it bought a good and sold another back,
\* and the settlement failed on the division.
SettledPriceDividedByZero ==
    /\ raised = "ZeroDivisionError"
    /\ Len(transactions) > 0
    /\ DividesByZero(transactions[Len(transactions)])

\* A valid transaction that bought two goods was settled and the price of
\* both is the amount divided by 2.
SettledPriceOfTwoGoods ==
    /\ raised = "none"
    /\ Len(transactions) > 0
    /\ transactions[Len(transactions)].quantities_by_good_pbk = <<1, 1>>
    /\ transactions[Len(transactions)].amount = 1500
    /\ \A good_id \in GoodIds : good_states[good_pbks[good_id]].price = Quotient(1500, 2)

\* ------------------------------------------------------------------ properties of the handshake

\* The settlement messages of the dialogue d that reached the controller, in
\* the order of their arrival.
settlements(d) ==
    SelectSeq(controller_inbox, LAMBDA e : e.message.dialogue_id = d)

\* The pending proposals and the pending acceptances of the behaviour b for
\* the dialogue d, and the locks that b holds for it.
pending_of(b, d) ==
    {key \in DOMAIN b.lock_manager.pending_tx_proposals
                 \cup DOMAIN b.lock_manager.pending_tx_acceptances : key[1][1] = d}

locks_of(b, d) ==
    {id \in DOMAIN b.lock_manager.locks :
        id = generate_transaction_id(b.public_key, other(b.public_key), d,
                                     b.dialogues[<<d, other(b.public_key)>>])}

\* Two serialized transactions are the same trade: the same buyer, the same
\* seller, the same amount and the same quantities.
same_trade(c1, c2) ==
    LET t1 == Transaction_from_dict(c1)
        t2 == Transaction_from_dict(c2)
    IN /\ buyer_pbk(t1) = buyer_pbk(t2)
       /\ seller_pbk(t1) = seller_pbk(t2)
       /\ t1.amount = t2.amount
       /\ t1.quantities_by_good_pbk = t2.quantities_by_good_pbk

\* The settlement message that the agent sender forwards in answer to an
\* Accept, as the controller receives it.
forwarded(sender, accept, tx) ==
    Envelope(controller_pbk, sender,
             ByteMessage(accept.msg_id + 1, accept.dialogue_id, controller_pbk,
                         Transaction_to_dict(tx)))

\* The handshake of the dialogue d is over on both sides: nothing is pending
\* for it and each side holds one lock for it.
Settled(d) ==
    \A pbk \in {public_key, opponent_pbk} :
        /\ pending_of(BehaviourOf(pbk), d) = {}
        /\ Cardinality(locks_of(BehaviourOf(pbk), d)) = 1

\* The step delivers the first Accept of a dialogue, the one that answers a
\* pending proposal, and its receiver finds the transaction profitable: it
\* echoes an Accept.
FirstAcceptStep(envelope, choice) ==
    LET b == BehaviourOf(envelope.to)
        key == <<<<envelope.message.dialogue_id, envelope.sender>>, envelope.message.target>>
    IN /\ envelope.message.performative = "Accept"
       /\ key \notin DOMAIN b.lock_manager.pending_tx_acceptances
       /\ Deliver(envelope, choice)
       /\ \E i \in DOMAIN returned' : returned'[i].performative = "Accept"

\* The step delivers the Accept that matches a pending acceptance.
MatchingAcceptStep(envelope, choice) ==
    LET b == BehaviourOf(envelope.to)
        key == <<<<envelope.message.dialogue_id, envelope.sender>>, envelope.message.target>>
    IN /\ envelope.message.performative = "Accept"
       /\ key \in DOMAIN b.lock_manager.pending_tx_acceptances
       /\ Deliver(envelope, choice)

\* C25: in a handshake CFP, Propose, Accept, Accept in which both sides find
\* the transaction profitable, the proposer forwards the transaction to the
\* controller on the first Accept and the other side forwards it on the
\* matching Accept; exactly two settlement messages of the dialogue reach the
\* controller, one from each side, both for the same trade; and from then on
\* neither side has a pending proposal or a pending acceptance for the
\* dialogue and each side holds exactly one lock for it.
C25_HandshakeSettles ==
    [][/\ \A envelope \in in_flight :
             \A choice \in choices(BehaviourOf(envelope.to), envelope) :
                LET b == BehaviourOf(envelope.to)
                    d == envelope.message.dialogue_id
                    key == <<<<d, envelope.sender>>, envelope.message.target>>
                IN /\ FirstAcceptStep(envelope, choice)
                      => /\ settlements(d) = <<>>
                         /\ controller_inbox' =
                                Append(controller_inbox,
                                       forwarded(envelope.to, envelope.message,
                                                 b.lock_manager.pending_tx_proposals[key]))
                   /\ MatchingAcceptStep(envelope, choice)
                      => /\ Len(settlements(d)) = 1
                         /\ settlements(d)[1].sender = envelope.sender
                         /\ controller_inbox' =
                                Append(controller_inbox,
                                       forwarded(envelope.to, envelope.message,
                                                 b.lock_manager.pending_tx_acceptances[key]))
                         /\ same_trade(settlements(d)'[1].message.content,
                                       settlements(d)'[2].message.content)
                         /\ Settled(d)'
       /\ \A d \in HandshakeDialogueIds :
             /\ Len(settlements(d)') <= 2
             /\ Len(settlements(d)') = 2 => Settled(d)']_vars

\* The messages of a dialogue arrive in the order CFP, Propose, Accept,
\* Accept: the ids of the messages delivered are 1, 2, 3 and 4, a message
\* answers the message one before it, and the settlement messages carry the
\* ids 4 and 5 (not a claim's formula).
HandshakeOrder ==
    /\ \A envelope \in in_flight :
          /\ envelope.message.target = envelope.message.msg_id - 1
          /\ envelope.message.performative = "CFP" <=> envelope.message.msg_id = 1
          /\ envelope.message.performative = "Propose" => envelope.message.msg_id = 2
          /\ envelope.message.performative = "Accept" => envelope.message.msg_id \in {3, 4}
    /\ \A d \in HandshakeDialogueIds :
          \A i \in DOMAIN settlements(d) : settlements(d)[i].message.msg_id = 3 + i

\* A handshake was completed: two settlement messages of a dialogue reached
\* the controller, the first from the proposer and the second from the agent
\* that sent the CFP, and no message of the dialogue is on its way.
HandshakeCompleted(d, proposer) ==
    /\ Len(settlements(d)) = 2
    /\ settlements(d)[1].sender = proposer
    /\ settlements(d)[2].sender = other(proposer)
    /\ \A envelope \in in_flight : envelope.message.dialogue_id # d
    /\ Settled(d)

C25_Witness ==
    \E d \in HandshakeDialogueIds : HandshakeCompleted(d, public_key)

\* The same with the agent as the sender of the CFP.
HandshakeCompletedByOpponentFirst ==
    \E d \in HandshakeDialogueIds : HandshakeCompleted(d, opponent_pbk)

\* The first Accept reached a proposer that keeps a belief state: its handler
\* failed and the handshake stopped with one lock held by the other side.
HandshakeStoppedAtFirstAccept ==
    /\ raised = "AttributeError"
    /\ \E d \in HandshakeDialogueIds :
          /\ settlements(d) = <<>>
          /\ \E pbk \in {public_key, opponent_pbk} :
                Cardinality(locks_of(BehaviourOf(pbk), d)) = 1

\* ------------------------------------------------------------------ properties of the frame of a settlement

\* The agents that are neither the buyer nor the seller of tx.
bystanders(tx) == Agents \ {buyer_pbk(tx), seller_pbk(tx)}

\* C31: the price of every good is the default 0 while nothing was settled;
\* a step changes the price of a good only by settling a valid transaction
\* with a positive quantity of it; and settling a transaction leaves the
\* price of every good that it trades no unit of, and the balance and the
\* holdings of every agent other than its buyer and its seller, unchanged.
C31_SettlementFrame ==
    [][/\ transactions = <<>>
          => \A good_pbk \in Range(good_pbks) :
                good_states[good_pbk].price = DEFAULT_PRICE
       /\ \A good_id \in GoodIds :
             good_states'[good_pbks[good_id]].price # good_states[good_pbks[good_id]].price
                => \E tx \in TxSet :
                      /\ tx.quantities_by_good_pbk[good_id] > 0
                      /\ transactions' = Append(transactions, tx)
                      /\ is_transaction_valid(TheGame, tx)
                      /\ SettleTransaction(tx)
       /\ \/ UNCHANGED <<good_states, agent_states, heap>>
          \/ \A tx \in TxSet :
                \/ transactions' \notin {transactions, Append(transactions, tx)}
                \/ /\ \A good_id \in GoodIds :
                         tx.quantities_by_good_pbk[good_id] = 0
                            => good_states'[good_pbks[good_id]].price =
                                   good_states[good_pbks[good_id]].price
                   /\ \A pbk \in bystanders(tx) :
                         /\ balance_after(pbk) = balance(pbk)
                         /\ holdings_after(pbk) = holdings(pbk)
                \/ ~SettleTransaction(tx)]_vars

\* A transaction that buys one unit of the first good and none of the second
\* was settled: the first good has the price of the transaction, the second
\* the default price, and the third agent what it started with.
C31_Witness ==
    /\ raised = "none"
    /\ Len(transactions) = 1
    /\ transactions[1].quantities_by_good_pbk = <<1, 0>>
    /\ transactions[1].amount = 1500
    /\ good_states["tac_good_0"].price = Quotient(1500, 1)
    /\ good_states["tac_good_1"].price = DEFAULT_PRICE
    /\ balance("tac_agent_2_pbk") = 2000
    /\ holdings("tac_agent_2_pbk") = <<1, 2>>

\* ------------------------------------------------------------------ properties of the belief state

\* The step is one of the two price updates of the belief state.
BeliefUpdateStep ==
    last_call'.name \in {"update_on_declined_propose", "update_on_initial_accept"}

\* The units that a transaction buys, all goods together.
units_bought(tx) == positive_instances_traded(tx)

\* The price models after the update with tx are those before it with one
\* more observation, the outcome flag and the price per unit bought (rounded
\* to one decimal), in the model of every good that tx buys a unit of.
ObservedOnce(tx, is_accepted) ==
    \A good_id \in GoodIds :
        LET before == game_instance.world_state.good_price_models[good_pbks[good_id]]
            after == game_instance'.world_state.good_price_models[good_pbks[good_id]]
        IN IF tx.quantities_by_good_pbk[good_id] > 0
           THEN after = Append(before, <<is_accepted, round_1(tx.amount, units_bought(tx))>>)
           ELSE after = before

\* C32: the price updates of the belief state on a declined proposal and on
\* an initial accept feed one price per unit, with the outcome flag, once
\* into the price model of every good with a positive quantity, leave the
\* other price models unchanged, and complete for every transaction, also
\* one with no positive quantity.
C32_BeliefUpdateCompletes ==
    [][BeliefUpdateStep
          => /\ raised' = "none"
             /\ ObservedOnce(last_call'.transaction,
                             last_call'.name = "update_on_initial_accept")]_vars

\* The update of C32 for the transactions that buy a unit of some good, and
\* what happens for the others: the division fails and no price model
\* changes (not a claim's formula).
BeliefUpdateWhenUnitsBought ==
    [][BeliefUpdateStep
          => IF units_bought(last_call'.transaction) > 0
             THEN /\ raised' = "none"
                  /\ ObservedOnce(last_call'.transaction,
                                  last_call'.name = "update_on_initial_accept")
             ELSE /\ raised' = "ZeroDivisionError"
                  /\ game_instance' = game_instance]_vars

\* An update with a transaction of no positive quantity failed.
BeliefUpdateDividedByZero ==
    /\ last_call.name = "update_on_declined_propose"
    /\ last_call.transaction.quantities_by_good_pbk = <<0, 0>>
    /\ raised = "ZeroDivisionError"

\* An accepted transaction of two units of the first good and one of the
\* second for 10.00 was observed: 3.30 per unit, once in each model.
BeliefUpdateOfThreeUnits ==
    /\ last_call.name = "update_on_initial_accept"
    /\ raised = "none"
    /\ handled = 1
    /\ \A good_pbk \in Range(good_pbks) :
          game_instance.world_state.good_price_models[good_pbk] = <<<<TRUE, 330>>>>

\* ------------------------------------------------------------------ properties of the holdings

\* No agent holds a negative quantity of a good.
HoldingsNonNegative ==
    \A pbk \in Agents : \A good_id \in GoodIds : holdings(pbk)[good_id] >= 0

\* C33: from an initialization with positive endowments, after any sequence
\* of settlements of valid transactions no holding of any agent is negative,
\* whatever the signs of the traded quantities.
C33_HoldingsNeverNegative ==
    HoldingsNonNegative

\* A settlement of a transaction with no negative quantity keeps the
\* holdings non-negative (not a claim's formula: C33 fails through negative
\* quantities only).
HoldingsNonNegativeWithoutNegativeQuantity ==
    [][\A tx \in TxSet :
          (/\ HoldingsNonNegative
           /\ \A good_id \in GoodIds : tx.quantities_by_good_pbk[good_id] >= 0
           /\ SettleTransaction(tx))
              => HoldingsNonNegative']_vars

\* Two valid transactions that give a unit of each good back were settled
\* and the buyer holds a negative quantity of the second good.
BuyerHoldsNegativeQuantity ==
    /\ raised = "none"
    /\ Len(transactions) = 2
    /\ \A i \in 1..2 : transactions[i].quantities_by_good_pbk = <<-1, -1>>
    /\ holdings(buyer_pbk(transactions[1])) = <<0, -1>>

\* ------------------------------------------------------------------ properties of a repeated Accept

\* The step delivers an Accept that its agent has handled a copy of.
RepeatedAcceptStep(envelope) ==
    /\ envelope.message.performative = "Accept"
    /\ envelope.repeated
    /\ Deliver(envelope, Proposal(0, <<0, 0>>)) \/ DeliverCopy(envelope)

\* The settlement messages of the dialogue d that the agent pbk sent.
settlements_from(pbk, d) ==
    SelectSeq(controller_inbox,
              LAMBDA e : e.sender = pbk /\ e.message.dialogue_id = d)

\* C34: in one dialogue an agent sends at most one settlement message; an
\* Accept repeated after the agent handled it, in the initial case or in the
\* match case, finds no pending entry under its target, and its handler
\* sends no settlement message and takes no lock.
C34_RepeatedAcceptDropped ==
    [][/\ \A envelope \in in_flight :
             RepeatedAcceptStep(envelope)
                => LET b == BehaviourOf(envelope.to)
                       key == <<<<envelope.message.dialogue_id, envelope.sender>>,
                                envelope.message.target>>
                   IN /\ key \notin DOMAIN b.lock_manager.pending_tx_proposals
                      /\ key \notin DOMAIN b.lock_manager.pending_tx_acceptances
                      /\ raised' = "ProtocolError"
                      /\ returned' = <<>>
                      /\ controller_inbox' = controller_inbox
                      /\ BehaviourOf(envelope.to)'.lock_manager = b.lock_manager
       /\ \A pbk \in {public_key, opponent_pbk}, d \in HandshakeDialogueIds :
             Len(settlements_from(pbk, d)') <= 1]_vars

\* An Accept is handled again after its agent popped the pending entry and
\* forwarded the transaction: in the initial case (the Accept has the id 3)
\* and in the match case (the id 4).
RepeatedAcceptHandled(msg_id) ==
    /\ raised = "ProtocolError"
    /\ \E envelope \in in_flight :
          /\ envelope.repeated
          /\ envelope.message.performative = "Accept"
          /\ envelope.message.msg_id = msg_id
          /\ Len(settlements_from(envelope.to, envelope.message.dialogue_id)) = 1

C34_Witness == RepeatedAcceptHandled(3)

RepeatedMatchingAcceptHandled == RepeatedAcceptHandled(4)

\* ------------------------------------------------------------------ properties of the end of the dialogues

\* C35: the lock that an agent recorded for a dialogue is released when the
\* dialogue ends, by a settlement confirmation, by a Decline or by a timeout:
\* an agent holds no lock for a dialogue that has ended.
C35_NoLockOfEndedDialogue ==
    \A pbk \in {public_key, opponent_pbk}, d \in HandshakeDialogueIds :
        <<pbk, d>> \in ended => locks_of(BehaviourOf(pbk), d) = {}

\* The step delivers a Decline to an agent that holds a lock for the
\* dialogue, and the lock is released (not a claim's formula).
DeclineReleasesLockOfDialogue ==
    [][\A envelope \in in_flight :
          (/\ envelope.message.performative = "Decline"
           /\ Deliver(envelope, Proposal(0, <<0, 0>>)))
              => locks_of(BehaviourOf(envelope.to), envelope.message.dialogue_id)' = {}]_vars

\* The agent that accepted a proposal and locked it was answered with a
\* Decline: its dialogue has ended and its lock is released.
C35_Witness ==
    /\ last_message.performative = "Decline"
    /\ last_message.target = 3
    /\ raised = "none"
    /\ <<public_key, last_message.dialogue_id>> \in ended
    /\ locks_of(BehaviourOf(public_key), last_message.dialogue_id) = {}
    /\ <<last_dialogue.dialogue_label, 3>> \in DOMAIN lock_manager.pending_tx_acceptances

\* Both sides of a completed handshake were confirmed and hold no lock.
HandshakeConfirmed ==
    \E d \in HandshakeDialogueIds :
        /\ {<<public_key, d>>, <<opponent_pbk, d>>} \subseteq ended
        /\ controller_inbox = <<>>
        /\ \A pbk \in {public_key, opponent_pbk} :
              /\ <<d, other(pbk)>> \in DOMAIN BehaviourOf(pbk).dialogues
              /\ pending_of(BehaviourOf(pbk), d) = {}

\* An agent holds the lock of a dialogue of which no message is on its way
\* and none is with the controller: only a timeout releases it.
LockAwaitsTimeout ==
    \E pbk \in {public_key, opponent_pbk}, d \in HandshakeDialogueIds :
        /\ <<d, other(pbk)>> \in DOMAIN BehaviourOf(pbk).dialogues
        /\ locks_of(BehaviourOf(pbk), d) # {}
        /\ \A envelope \in in_flight : envelope.message.dialogue_id # d
        /\ controller_inbox = <<>>
        /\ <<pbk, d>> \notin ended

\* ------------------------------------------------------------------ properties of the equality of Games

\* The Game built from the configuration of the state and the initialization
\* with the given initial money amounts, on which the log of the state was
\* settled.
GameOfInitialization(money) ==
    replay(Game(configuration, GameInitialization(money), heap, "other"),
           [i \in DOMAIN transactions |-> Transaction_to_dict(transactions[i])],
           1).game

\* The two Games have equal agent states and equal good prices.
SameStates(g1, g2) ==
    /\ \A pbk \in Agents :
          AgentState_eq(g1.heap, g1.agent_states[pbk], g2.heap, g2.agent_states[pbk])
    /\ g1.good_states = g2.good_states

\* C36: a Game that compares equal to the Game of the state has the same
\* agent states and the same good prices, whatever initialization it was
\* built from.
C36_EqualGamesHaveEqualStates ==
    \A money \in InitialMoneyAmounts :
        Game_eq(TheGame, GameOfInitialization(money))
            => SameStates(TheGame, GameOfInitialization(money))

\* C36 for the Games built from the initialization of the state, when no
\* settlement raised (not a claim's formula).
EqualGamesOfOneInitialization ==
    (\A i \in DOMAIN transactions : ~DividesByZero(transactions[i]))
        => \A money \in InitialMoneyAmounts :
              (/\ GameInitialization(money) = initialization
               /\ Game_eq(TheGame, GameOfInitialization(money)))
                  => SameStates(TheGame, GameOfInitialization(money))

\* Two Games built from different initializations compare equal.
EqualGamesOfTwoInitializations ==
    \E money \in InitialMoneyAmounts :
        /\ GameInitialization(money) # initialization
        /\ Game_eq(TheGame, GameOfInitialization(money))
        /\ ~SameStates(TheGame, GameOfInitialization(money))

\* ------------------------------------------------------------------ properties of the main loop

\* What agent_state is to return for the mailbox and the liveness of a.
StateOfMailboxAndLiveness(a) ==
    IF a.mailbox = "None" THEN "initiated"
    ELSE IF ~a.is_connected THEN "initiated"
    ELSE IF a._is_stopped THEN "connected"
    ELSE "running"

\* An agent with a mailbox, started by start() outside the debug mode, is
\* executing act, react or update.
InIteration ==
    /\ main_loop.mailbox # "None"
    /\ ~main_loop.debug
    /\ main_loop.pc \in {"act", "react", "update"}

\* agent_state never raises and returns the state of the mailbox and the
\* liveness.
AgentStateTotal ==
    /\ Agent_agent_state(main_loop) # "ValueError"
    /\ Agent_agent_state(main_loop) = StateOfMailboxAndLiveness(main_loop)

\* C37: agent_state never raises and returns INITIATED, CONNECTED or RUNNING
\* as the mailbox and the liveness say; while the main loop of an agent started
\* normally executes act, react or update, agent_state is RUNNING.
C37_AgentStateRunningInLoop ==
    /\ AgentStateTotal
    /\ InIteration => Agent_agent_state(main_loop) = "running"

\* C37, amended: while the main loop executes act, react or update,
\* agent_state is RUNNING until stop() is called, then CONNECTED as long as
\* the stop() of a second thread has not disconnected the mailbox, and
\* INITIATED from the disconnection on, for the rest of the iteration.
C37_AgentStateRunningUntilStop ==
    /\ AgentStateTotal
    /\ InIteration =>
          Agent_agent_state(main_loop) =
              IF ~main_loop._is_stopped THEN "running"
              ELSE IF main_loop.thread = "disconnect" /\ main_loop.is_connected
              THEN "connected"
              ELSE "initiated"

\* act() called stop(): react() runs in an agent whose state is INITIATED.
C37_Witness ==
    /\ InIteration
    /\ main_loop.pc = "react"
    /\ main_loop.stops = 1
    /\ main_loop.thread = "idle"
    /\ Agent_agent_state(main_loop) = "initiated"

\* update() runs in an agent whose state is RUNNING.
RunningInUpdate ==
    /\ InIteration
    /\ main_loop.pc = "update"
    /\ Agent_agent_state(main_loop) = "running"

\* A second thread is inside stop(): the state is CONNECTED during react().
ConnectedInReact ==
    /\ InIteration
    /\ main_loop.pc = "react"
    /\ Agent_agent_state(main_loop) = "connected"

\* The positions of the log at which name was called.
CallsOf(name) == {i \in DOMAIN main_loop.log : main_loop.log[i] = name}

\* The calls of act, react and update, in the order of the log.
IterationCalls ==
    SelectSeq(main_loop.log, LAMBDA name : name \in {"act", "react", "update"})

\* setup once and before the first act; act, react, update in that order in
\* every iteration; teardown once, after the last iteration, when the loop
\* was left; nothing of an iteration after teardown.
SetupIterationsTeardown ==
    /\ Cardinality(CallsOf("setup")) <= 1
    /\ main_loop.pc \notin {"start", "setup", "raised"}
          => Cardinality(CallsOf("setup")) = 1
    /\ \A i \in CallsOf("act"), j \in CallsOf("setup") : j < i
    /\ \A i \in DOMAIN IterationCalls :
          IterationCalls[i] = <<"act", "react", "update">>[((i - 1) % 3) + 1]
    /\ Cardinality(CallsOf("teardown")) =
          IF main_loop.pc \in {"stop", "exited"}
             \/ (main_loop.pc = "raised" /\ main_loop.log # <<>>
                 /\ main_loop.log[Len(main_loop.log)] = "teardown")
          THEN 1 ELSE 0
    /\ \A i \in CallsOf("teardown"), j \in DOMAIN main_loop.log :
          main_loop.log[j] \in {"setup", "act", "react", "update"} => j < i
    /\ main_loop.pc \in {"teardown", "stop", "exited"}
          => Len(IterationCalls) = 3 * main_loop.iterations

\* C38: in the main loop of the aea agent, setup is called once before the
\* first act, every iteration runs act, react, update in that order, teardown
\* is called once after the last iteration, and before the mailbox is
\* disconnected; no act, react or update runs after teardown.
C38_MainLoopOrder ==
    main_loop.version = "aea" =>
        /\ SetupIterationsTeardown
        /\ \A i \in CallsOf("teardown"), j \in CallsOf("disconnect") : i < j

\* C38 without the order of teardown and the disconnection (not a claim's
\* formula).
MainLoopOrderOfCalls == main_loop.version = "aea" => SetupIterationsTeardown

\* The loop of the aea agent ended after a full iteration, and the mailbox
\* was disconnected before teardown was called.
DisconnectedBeforeTeardown ==
    /\ main_loop.version = "aea"
    /\ main_loop.pc = "exited"
    /\ main_loop.iterations = 1
    /\ \E i \in CallsOf("teardown"), j \in CallsOf("disconnect") : j < i

\* The loop of the aea agent ended and teardown was called before the only
\* disconnection.
TeardownBeforeDisconnect ==
    /\ main_loop.version = "aea"
    /\ main_loop.pc = "exited"
    /\ Cardinality(CallsOf("disconnect")) = 1
    /\ \A i \in CallsOf("teardown"), j \in CallsOf("disconnect") : i < j

\* The main loop of an agent with a mailbox runs and its liveness is stopped.
StoppedInLoop ==
    /\ main_loop.mailbox # "None"
    /\ main_loop.pc \in {"setup", "while", "act", "react", "update"}
    /\ main_loop._is_stopped

\* start() returned: the liveness is stopped and the mailbox disconnected.
Terminated ==
    /\ main_loop.pc = "exited"
    /\ main_loop._is_stopped
    /\ ~main_loop.is_connected

\* Once the liveness is stopped, no further iteration begins and the liveness
\* stays stopped.
NoIterationAfterStop ==
    [][StoppedInLoop => /\ main_loop'.iterations = main_loop.iterations
                        /\ main_loop'._is_stopped]_vars

\* Once the liveness is stopped, the main loop terminates.
StopTerminates == StoppedInLoop ~> Terminated

\* The mailbox was never asked to disconnect, or to stop, while it was not
\* connected.
NeverAskedAgain == ~main_loop.asked_again

\* C39: once the liveness is stopped by a stop() called from act, react,
\* update or another thread, the main loop finishes the iteration, runs no
\* further one and terminates with the liveness stopped and the mailbox
\* disconnected; the mailbox is never asked to disconnect or stop while it is
\* already disconnected or stopped, also not by the stop() of the exit path.
C39_StopEndsLoopOnce ==
    /\ NoIterationAfterStop
    /\ StopTerminates
    /\ []NeverAskedAgain

\* C39 for the aea agent that no second thread stops (not a claim's formula).
StopEndsLoopOnceWithoutSecondThread ==
    /\ NoIterationAfterStop
    /\ StopTerminates
    /\ [](main_loop.version = "aea" /\ main_loop.thread = "idle" => NeverAskedAgain)

\* The v1 agent was stopped by act() and start() returned: the mailbox was
\* asked to stop a second time by the exit path.
StoppedTwiceByExitPath ==
    /\ main_loop.version = "v1"
    /\ main_loop.pc = "exited"
    /\ main_loop.stops = 1
    /\ main_loop.thread = "idle"
    /\ main_loop.asked_again

\* The aea agent was stopped by a second thread and by the exit path at the
\* same time: the mailbox was asked to disconnect twice.
DisconnectedTwiceByRace ==
    /\ main_loop.version = "aea"
    /\ main_loop.stops = 0
    /\ main_loop.asked_again

\* The aea agent was stopped by update() and start() returned.
StoppedOnceByMethod ==
    /\ main_loop.version = "aea"
    /\ main_loop.stops = 1
    /\ main_loop.thread = "idle"
    /\ Terminated
    /\ ~main_loop.asked_again

\* ------------------------------------------------------------------ properties of the registries

\* C40: the handlers accessor returns the registered handlers and the
\* behaviours accessor returns the registered behaviours.
C40_AccessorsExposeRegistries ==
    /\ Agent_handlers(main_loop) = main_loop._handlers
    /\ Agent_behaviours(main_loop) = main_loop._behaviours

\* C40 for the behaviours accessor alone (not a claim's formula).
BehavioursAccessor == Agent_behaviours(main_loop) = main_loop._behaviours

\* An agent with a handler and no behaviour, whose handlers accessor returns
\* the empty registry of behaviours.
HandlersAccessorReturnsBehaviours ==
    /\ main_loop._handlers = [fipa |-> "FIPAHandler"]
    /\ main_loop._behaviours = <<>>
    /\ Agent_handlers(main_loop) = <<>>

====
